---- MODULE Spec2Model ----
(***************************************************************************)
(* State-machine model of the SessionManager of xvfb-computer-use-mcp      *)
(* (src/src/sessions.ts), of the close hook of the server                  *)
(* (src/unnamed/part_002) and of the signal handlers (src/src/main.ts).    *)
(*                                                                         *)
(* Every await of the source is a suspension point: the code between two   *)
(* awaits is one action.  Child processes run in parallel with the event   *)
(* loop and are moved by environment actions.                              *)
(***************************************************************************)
EXTENDS Integers, Sequences, FiniteSets, TLC

\* ------------------------------------------------------------------ bounds
\* createSession calls, execInSession calls and teardown triggers in one
\* behaviour
MaxCreates == 2
MaxExecs == 2
MaxTriggers == 1
\* events in one behaviour: the calls above and the children that end (two
\* more under SpecLong)
MaxEvents == 2
\* lock files of other X servers of the host, from display 99 up
MaxForeignLocks == 1
\* screenshot calls in one behaviour
MaxShots == 2

\* ------------------------------------------------------- program constants
DefaultWidth == 1920
DefaultHeight == 1080
DefaultColorDepth == 24
FirstId == 1
FirstDisplay == 99
\* the limits of the images handed to the API
MAX_LONG_EDGE == 1568

\* ------------------------------------------------------------- JS values
\* An optional value is <<>> (undefined / null) or <<v>>.
Undefined == <<>>
Some(v) == <<v>>

\* a ?? d
Nullish(a, d) == IF a = Undefined THEN d ELSE a[1]

\* if (id): undefined and the empty string are both falsy
Truthy(id) == id # Undefined /\ id[1] # ""

\* { ...a, ...b }: the entries of b win
Overlay(a, b) == b @@ a

\* `:${display}`
DisplaySelector(display) == ":" \o ToString(display)

\* `s${n}`
SessionIdOf(n) == "s" \o ToString(n)

RECURSIVE JoinWith(_, _)
\* parts.join(sep)
JoinWith(parts, sep) ==
    IF parts = <<>> THEN ""
    ELSE IF Len(parts) = 1 THEN parts[1]
    ELSE parts[1] \o sep \o JoinWith(Tail(parts), sep)

SeqToSet(s) == { s[i] : i \in 1..Len(s) }

RECURSIVE SeqFilterOut(_, _)
\* the elements of s other than x, in order
SeqFilterOut(s, x) ==
    IF s = <<>> THEN <<>>
    ELSE IF Head(s) = x THEN SeqFilterOut(Tail(s), x)
    ELSE <<Head(s)>> \o SeqFilterOut(Tail(s), x)

\* ------------------------------------------------- natural numbers, by limbs
\* JavaScript numbers are IEEE-754 doubles, whose 53-bit significands (and the
\* 106-bit products of two of them) do not fit the integers of the model
\* checker: a natural number is kept as the sequence of its digits to the base
\* 2^15, lowest digit first, without leading zero digits.
LimbBase == 2 ^ 15

Max(a, b) == IF a >= b THEN a ELSE b

Min(a, b) == IF a <= b THEN a ELSE b

RECURSIVE BigOfInt(_)
BigOfInt(n) == IF n = 0 THEN <<>> ELSE <<n % LimbBase>> \o BigOfInt(n \div LimbBase)

RECURSIVE BigToInt(_)
BigToInt(a) == IF a = <<>> THEN 0 ELSE Head(a) + LimbBase * BigToInt(Tail(a))

RECURSIVE BigTrim(_)
BigTrim(a) ==
    IF a = <<>> THEN <<>>
    ELSE IF a[Len(a)] = 0 THEN BigTrim(SubSeq(a, 1, Len(a) - 1)) ELSE a

Limb(a, i) == IF i <= Len(a) THEN a[i] ELSE 0

\* a + b
BigAdd(a, b) ==
    LET RECURSIVE From(_, _)
        From(i, carry) ==
            IF i > Max(Len(a), Len(b))
            THEN IF carry = 0 THEN <<>> ELSE <<carry>>
            ELSE LET t == Limb(a, i) + Limb(b, i) + carry
                 IN  <<t % LimbBase>> \o From(i + 1, t \div LimbBase)
    IN  From(1, 0)

\* a - b for a >= b
BigSub(a, b) ==
    LET RECURSIVE From(_, _)
        From(i, borrow) ==
            IF i > Len(a) THEN <<>>
            ELSE LET t == Limb(a, i) - Limb(b, i) - borrow
                 IN  IF t < 0 THEN <<t + LimbBase>> \o From(i + 1, 1)
                     ELSE <<t>> \o From(i + 1, 0)
    IN  BigTrim(From(1, 0))

\* -1, 0 or 1 as a is below, equal to or above b
BigCmp(a, b) ==
    LET RECURSIVE At(_)
        At(i) ==
            IF i = 0 THEN 0
            ELSE IF a[i] # b[i] THEN (IF a[i] < b[i] THEN -1 ELSE 1)
            ELSE At(i - 1)
    IN  IF Len(a) # Len(b) THEN (IF Len(a) < Len(b) THEN -1 ELSE 1)
        ELSE At(Len(a))

\* a * k for 0 <= k < 2^15
BigMulSmall(a, k) ==
    LET RECURSIVE From(_, _)
        From(i, carry) ==
            IF i > Len(a)
            THEN IF carry = 0 THEN <<>> ELSE <<carry>>
            ELSE LET t == a[i] * k + carry
                 IN  <<t % LimbBase>> \o From(i + 1, t \div LimbBase)
    IN  BigTrim(From(1, 0))

\* a * b
BigMul(a, b) ==
    LET RECURSIVE From(_)
        From(i) ==
            IF i > Len(b) THEN <<>>
            ELSE BigAdd(BigMulSmall(a, b[i]), <<0>> \o From(i + 1))
    IN  BigTrim(From(1))

\* floor(a / k) for 0 < k <= 2^15
BigDivSmall(a, k) ==
    LET RECURSIVE At(_, _)
        At(i, r) ==
            IF i = 0 THEN <<>>
            ELSE LET t == r * LimbBase + a[i]
                 IN  At(i - 1, t % k) \o <<t \div k>>
    IN  BigTrim(At(Len(a), 0))

\* a * 2^n
BigShl(a, n) ==
    IF a = <<>> THEN <<>>
    ELSE [ i \in 1..(n \div 15) |-> 0 ] \o BigMulSmall(a, 2 ^ (n % 15))

\* floor(a / 2^n)
BigShr(a, n) ==
    IF Len(a) <= n \div 15 THEN <<>>
    ELSE BigDivSmall(SubSeq(a, n \div 15 + 1, Len(a)), 2 ^ (n % 15))

\* the number of bits of a
BigBitLength(a) ==
    LET RECURSIVE BitLength(_)
        BitLength(n) == IF n = 0 THEN 0 ELSE 1 + BitLength(n \div 2)
    IN  IF a = <<>> THEN 0 ELSE 15 * (Len(a) - 1) + BitLength(a[Len(a)])

\* bit i of a, bit 0 the lowest
BigBit(a, i) == (Limb(a, i \div 15 + 1) \div (2 ^ (i % 15))) % 2

\* quotient and remainder of a by d > 0, by long division: DigitIn is the
\* largest t in lo..(hi - 1) with d * t <= r, given d * lo <= r < d * hi, and
\* At divides the digits i.. of a
BigDivMod(a, d) ==
    LET RECURSIVE DigitIn(_, _, _)
        DigitIn(r, lo, hi) ==
            IF hi - lo = 1 THEN lo
            ELSE LET mid == (lo + hi) \div 2
                 IN  IF BigCmp(BigMulSmall(d, mid), r) <= 0
                     THEN DigitIn(r, mid, hi)
                     ELSE DigitIn(r, lo, mid)
        RECURSIVE At(_)
        At(i) ==
            IF i > Len(a) THEN [ q |-> <<>>, r |-> <<>> ]
            ELSE LET p == At(i + 1)
                     r1 == BigTrim(<<a[i]>> \o p.r)
                     t == DigitIn(r1, 0, LimbBase)
                 IN  [ q |-> BigTrim(<<t>> \o p.q), r |-> BigSub(r1, BigMulSmall(d, t)) ]
    IN  At(1)

\* floor(sqrt(a)) for a > 0, by Newton's iteration on integers from an
\* x >= floor(sqrt(a))
BigIsqrt(a) ==
    LET RECURSIVE From(_)
        From(x) ==
            LET y == BigShr(BigAdd(x, BigDivMod(a, x).q), 1)
            IN  IF BigCmp(y, x) >= 0 THEN x ELSE From(y)
    IN  From(BigShl(<<1>>, (BigBitLength(a) + 1) \div 2))

\* --------------------------------------------------------- IEEE-754 doubles
\* A positive double is [m, e] for the value m * 2^e with 2^52 <= m < 2^53;
\* zero is [<<>>, 0].  The values of this program are far from the subnormal
\* and the infinite range.  Every operation rounds to nearest, ties to even.
DblZero == [ m |-> <<>>, e |-> 0 ]

\* q * 2^e rounded to a double; sticky says that bits below q were cut off
DblRound(q, e, sticky) ==
    LET n == BigBitLength(q)
    IN  IF n <= 53
        THEN [ m |-> BigShl(q, 53 - n), e |-> e - (53 - n) ]
        ELSE LET sh == n - 53
                 kept == BigShr(q, sh)
                 half == BigBit(q, sh - 1) = 1
                 rest == BigShl(BigShr(q, sh - 1), sh - 1) # q \/ sticky
                 up == half /\ (rest \/ BigBit(kept, 0) = 1)
                 m1 == IF up THEN BigAdd(kept, <<1>>) ELSE kept
             IN  IF BigBitLength(m1) = 54
                 THEN [ m |-> BigShr(m1, 1), e |-> e + sh + 1 ]
                 ELSE [ m |-> m1, e |-> e + sh ]

\* an integer 0 <= n < 2^31 as a double (exact)
DblOfInt(n) == IF n = 0 THEN DblZero ELSE DblRound(BigOfInt(n), 0, FALSE)

\* a * b
DblMul(a, b) ==
    IF a.m = <<>> \/ b.m = <<>> THEN DblZero
    ELSE DblRound(BigMul(a.m, b.m), a.e + b.e, FALSE)

\* a / b for b # 0
DblDiv(a, b) ==
    IF a.m = <<>> \/ b.m = <<>> THEN DblZero
    ELSE LET d == BigDivMod(BigShl(a.m, 55), b.m)
         IN  DblRound(d.q, a.e - b.e - 55, d.r # <<>>)

\* Math.sqrt(a)
DblSqrt(a) ==
    IF a.m = <<>> THEN DblZero
    ELSE LET odd == a.e % 2 = 1
             m2 == BigShl(a.m, IF odd THEN 57 ELSE 56)
             e2 == (IF odd THEN a.e - 57 ELSE a.e - 56) \div 2
             r == BigIsqrt(m2)
         IN  DblRound(r, e2, BigMul(r, r) # m2)

\* a < b
DblLt(a, b) ==
    IF b.m = <<>> THEN FALSE
    ELSE IF a.m = <<>> THEN TRUE
    ELSE a.e < b.e \/ (a.e = b.e /\ BigCmp(a.m, b.m) < 0)

\* Math.min(a, b)
DblMin(a, b) == IF DblLt(b, a) THEN b ELSE a

\* Math.floor(a), for a below 2^31
DblFloor(a) ==
    IF a.m = <<>> THEN 0
    ELSE IF a.e >= 0 THEN BigToInt(BigShl(a.m, a.e))
    ELSE BigToInt(BigShr(a.m, -a.e))

\* Math.round(a): the integer nearest to a, a tie going up
DblRoundHalfUp(a) ==
    IF a.m = <<>> THEN 0
    ELSE IF a.e >= 0 THEN BigToInt(BigShl(a.m, a.e))
    ELSE BigToInt(BigShr(BigAdd(a.m, BigShl(<<1>>, -a.e - 1)), -a.e))

\* ------------------------------------------------------------ scale factors
DblOne == DblOfInt(1)

\* const MAX_PIXELS = 1.15 * 1024 * 1024; the literal 1.15 is the double
\* nearest to 115/100
MAX_PIXELS ==
    DblMul(DblMul(DblDiv(DblOfInt(115), DblOfInt(100)), DblOfInt(1024)), DblOfInt(1024))

\* a scale factor that looks at the long edge alone
GetApiScaleFactorLongEdgeOnly(width, height) ==
    IF Max(width, height) > MAX_LONG_EDGE
    THEN DblDiv(DblOfInt(MAX_LONG_EDGE), DblOfInt(Max(width, height))) ELSE DblOne

\* getApiScaleFactor(width, height) of sessions.ts (lines 45-53)
GetApiScaleFactor(width, height) ==
    LET longEdge == Max(width, height)
        totalPixels == width * height
        longEdgeScale ==
            IF longEdge > MAX_LONG_EDGE
            THEN DblDiv(DblOfInt(MAX_LONG_EDGE), DblOfInt(longEdge)) ELSE DblOne
        pixelScale ==
            IF DblLt(MAX_PIXELS, DblOfInt(totalPixels))
            THEN DblSqrt(DblDiv(MAX_PIXELS, DblOfInt(totalPixels))) ELSE DblOne
    IN  DblMin(longEdgeScale, pixelScale)

\* scaleFactor < 1 ? Math.floor(edge * scaleFactor) : edge (lines 469-476)
ImageEdge(edge, scaleFactor) ==
    IF DblLt(scaleFactor, DblOne)
    THEN DblFloor(DblMul(DblOfInt(edge), scaleFactor))
    ELSE edge

\* getScaleFactor(displayWidth, displayHeight) of the server: 1 / apiScale
GetScaleFactor(displayWidth, displayHeight) ==
    DblDiv(DblOne, GetApiScaleFactor(displayWidth, displayHeight))

\* Math.max(0, Math.min(Math.round(c * scaleFactor), edge - 1)); for c < 0 the
\* product is negative, it rounds to an integer <= 0 and the clamp gives 0
ScaleCoordinate(c, scaleFactor, edge) ==
    IF c < 0 THEN 0
    ELSE Max(0, Min(DblRoundHalfUp(DblMul(DblOfInt(c), scaleFactor)), edge - 1))

\* a position returned in display space
ApiCoordinateOfDisplay(pos, scaleFactor) == pos

\* Math.round(pos / scaleFactor)
ApiCoordinate(pos, scaleFactor) == DblRoundHalfUp(DblDiv(DblOfInt(pos), scaleFactor))

\* ----------------------------------------------------------------- inputs
\* SessionOptions handed to createSession
OptsInputs ==
    { [width |-> Undefined, height |-> Undefined, colorDepth |-> Undefined,
       windowManager |-> Undefined],
      [width |-> Some(800), height |-> Some(600), colorDepth |-> Undefined,
       windowManager |-> Some(FALSE)] }

\* binaries that exist on the host; spawning any other reports ENOENT
Installed == { "xmessage", "xterm" }

\* (command, args, env) handed to execInSession
ExecInputs ==
    { [command |-> "xmessage", args |-> <<"hi">>, env |-> <<>>],
      [command |-> "/bin/does-not-exist", args |-> <<"-v">>, env |-> <<>>],
      [command |-> "xterm", args |-> <<>>, env |-> ("DISPLAY" :> ":0")] }

\* the environment of the server process
ProcessEnv == ("DISPLAY" :> ":0") @@ ("PATH" :> "/usr/bin")

\* identifiers a caller may name
IdInputs == { SessionIdOf(n) : n \in FirstId..(FirstId + MaxCreates - 1) } \cup { "nope" }

\* the optional identifier handed to resolveSession
OptIdInputs == { Undefined, Some("") } \cup { Some(i) : i \in IdInputs }

ForeignLockRange == FirstDisplay..(FirstDisplay + MaxForeignLocks - 1)

\* the teardown triggers that reach the close hook of the server
HookTriggers == { "SIGINT", "SIGTERM", "close" }

VARIABLES
    sessions,     \* the registry Map: its keys, in insertion order
    objs,         \* the Session objects, by identifier (a key of sessions refers to objs[key])
    nextId,
    nextDisplay,
    procs,        \* the ChildProcess handles ever spawned, in spawn order
    locks,        \* the N for which /tmp/.X<N>-lock exists
    creates,      \* the createSession calls
    execs,        \* the execInSession calls
    destroyed,    \* the identifiers a destroySession call has returned for
    dall,         \* the destroyAll call in progress
    host,         \* the server process
    teardown,     \* the teardown triggers seen
    budget,       \* how many events the behaviour may have (it never changes)
    invoked,      \* the external-tool invocations made so far
    call,         \* the latest input, capture or window call of the facade
    pointer,      \* the pointer of each X display that was moved: display -> <<x, y>>
    capture       \* the screenshot calls made, and the temporary files on disk

vars == << sessions, objs, nextId, nextDisplay, procs, locks, creates, execs,
           destroyed, dall, host, teardown, budget, invoked, call, pointer, capture >>

\* ------------------------------------------------------ child processes
\* A ChildProcess handle as node:child_process keeps it: pid is undefined when
\* the spawn failed; exitCode is set by a normal exit only; a process ended by
\* a signal has exitCode null and signalCode set; killed is set by
\* subprocess.kill() alone, which the manager never calls on these handles.
NewProc(kind, pid, display, env) ==
    [ kind |-> kind, pid |-> pid, display |-> display, env |-> env,
      exitCode |-> Undefined, signalCode |-> Undefined, killed |-> FALSE,
      ready |-> FALSE, termSent |-> FALSE ]

\* the operating-system process behind the handle has started and not ended
Running(p) == p.pid # Undefined /\ p.exitCode = Undefined /\ p.signalCode = Undefined

\* the pids of the children that run now
RunningPids(ps) == { ps[h].pid[1] : h \in { k \in 1..Len(ps) : Running(ps[k]) } }

\* The pids the host can give to the next child: one no child ever had (pids
\* are labels, so one fresh label stands for them all), or the pid of a child
\* that has ended, which the host is free to hand out again.
FreePids ==
    { Len(procs) + 1 } \cup
    ({ procs[h].pid[1] : h \in { k \in 1..Len(procs) : procs[k].pid # Undefined } }
        \ RunningPids(procs))

\* process.kill(pid, "SIGTERM") in try/catch: the signal reaches the running
\* process that holds pid now; ESRCH (no such process) is swallowed
ProcessKill(ps, pid) ==
    [ h \in 1..Len(ps) |->
        IF Running(ps[h]) /\ ps[h].pid = Some(pid)
        THEN [ ps[h] EXCEPT !.termSent = TRUE ]
        ELSE ps[h] ]

RECURSIVE KillEach(_, _)
\* for (const pid of pids) process.kill(pid, "SIGTERM")
KillEach(ps, pids) ==
    IF pids = <<>> THEN ps
    ELSE KillEach(ProcessKill(ps, Head(pids)), Tail(pids))

\* --------------------------------------------------- external invocations
\* spawn(file, args): the arguments reach the program as separate argv elements
SpawnInvocation(file, args) == [ via |-> "spawn", file |-> file, args |-> args ]

\* exec(command), promisified as execAsync: node runs /bin/sh -c command, so
\* the shell parses the command string
ExecInvocation(command) == [ via |-> "exec", file |-> "/bin/sh", args |-> <<"-c", command>> ]

\* spawn("Xvfb", [...]) of createSession (lines 77-89)
XvfbInvocation(display, width, height, colorDepth) ==
    SpawnInvocation("Xvfb",
        << DisplaySelector(display), "-screen", "0",
           ToString(width) \o "x" \o ToString(height) \o "x" \o ToString(colorDepth),
           "-ac", "+extension", "GLX", "+render", "-noreset" >>)

\* the readiness probe of waitForDisplay (line 142)
XdpyinfoInvocation(display) ==
    ExecInvocation("xdpyinfo -display " \o DisplaySelector(display))

\* spawn("openbox", []) of createSession (line 112)
OpenboxInvocation == SpawnInvocation("openbox", <<>>)

\* spawn("xdotool", args) of the xdotool helper (line 298)
XdotoolInvocation(args) == SpawnInvocation("xdotool", args)

\* ------------------------------------------------------------ Map helpers
\* Map.prototype.set on a map kept as the sequence of its entries in insertion
\* order: an existing key keeps its place and takes the new value
MapSet(m, entry) ==
    IF \E i \in 1..Len(m) : m[i].pid = entry.pid
    THEN [ i \in 1..Len(m) |-> IF m[i].pid = entry.pid THEN entry ELSE m[i] ]
    ELSE Append(m, entry)

\* this.sessions.set(id, session)
RegistrySet(keys, id) == IF id \in SeqToSet(keys) THEN keys ELSE Append(keys, id)

\* a delete that leaves the key in the registry
RegistryDeleteKept(keys, id) == keys

\* this.sessions.delete(id)
RegistryDelete(keys, id) == SeqFilterOut(keys, id)

\* [...m.keys()] of an appProcesses map
PidKeys(m) == [ i \in 1..Len(m) |-> m[i].pid ]

\* ------------------------------------------------------ display allocator
RECURSIVE FirstUnlocked(_, _)
\* while (existsSync(`/tmp/.X${n}-lock`)) n++
FirstUnlocked(n, lk) == IF n \in lk THEN FirstUnlocked(n + 1, lk) ELSE n

\* an allocator that does not look for lock files
AllocateDisplayNoLockTest(candidate, lk) == candidate

\* allocateDisplay(): the display returned; nextDisplay becomes it plus one
AllocateDisplay(candidate, lk) == FirstUnlocked(candidate, lk)

\* an allocator that does not advance its candidate
NextDisplayNotAdvanced(display) == display

\* this.nextDisplay++ after the display was taken (line 65)
NextDisplayAfter(display) == display + 1

\* const id = `s${this.nextId++}`
NextIdAfter(n) == n + 1

\* ------------------------------------------------------- facade results
Ok(v) == [ ok |-> TRUE, value |-> v ]
Err(msg) == [ ok |-> FALSE, error |-> msg ]

NotFoundError(id) == "Session '" \o id \o "' not found"
NoSessionsError == "No sessions exist. Create one with create_session first."
MultipleError(keys) ==
    "Multiple sessions exist (" \o JoinWith(keys, ", ") \o "). Specify session_id."
LaunchError(cmdStr, cause) == "Failed to launch '" \o cmdStr \o "': " \o cause
InitError(display) ==
    "Xvfb display " \o DisplaySelector(display) \o " did not become ready within 5000ms"

\* the message of the error a failed spawn reports
SpawnCause(command) == "spawn " \o command \o " ENOENT"

\* getSession(id)
GetSession(keys, id) ==
    IF id \in SeqToSet(keys) THEN Ok(id) ELSE Err(NotFoundError(id))

\* resolveSession(id?)
ResolveSession(keys, id) ==
    IF Truthy(id) THEN GetSession(keys, id[1])
    ELSE IF Len(keys) = 1 THEN Ok(keys[1])
    ELSE IF Len(keys) = 0 THEN Err(NoSessionsError)
    ELSE Err(MultipleError(keys))

\* alive: !info.process.killed && info.process.exitCode === null
Alive(p) == ~p.killed /\ p.exitCode = Undefined

\* the processes field of one listSessions entry
ProcessInfos(m, ps) ==
    [ i \in 1..Len(m) |->
        [ pid |-> m[i].pid, command |-> m[i].command, alive |-> Alive(ps[m[i].process]) ] ]

\* listSessions()
ListSessions(keys, os, ps) ==
    [ i \in 1..Len(keys) |->
        [ id |-> os[keys[i]].id, display |-> os[keys[i]].display,
          width |-> os[keys[i]].width, height |-> os[keys[i]].height,
          processes |-> ProcessInfos(os[keys[i]].appProcesses, ps) ] ]

\* ------------------------------------------------------------------- Init
\* no input, capture or window call was made yet
NoCall == [ op |-> "none", pc |-> "returned", invocations |-> <<>> ]

InitWith(calls) ==
    /\ budget = calls
    /\ sessions = <<>>
    /\ objs = <<>>
    /\ nextId = FirstId
    /\ nextDisplay = FirstDisplay
    /\ procs = <<>>
    /\ locks \in SUBSET ForeignLockRange
    /\ creates = <<>>
    /\ execs = <<>>
    /\ destroyed = {}
    /\ dall = [ pc |-> "idle", todo |-> <<>> ]
    /\ host \in { [ state |-> "running", transport |-> "open", openbox |-> b ] :
                    b \in BOOLEAN }
    /\ teardown = <<>>
    /\ invoked = {}
    /\ call = NoCall
    /\ pointer = <<>>
    /\ capture = [ calls |-> <<>>, files |-> <<>> ]

Init == InitWith(MaxEvents)

InitLong == InitWith(MaxEvents + 2)

Up == host.state = "running"

\* The event loop can start a new callback (a timer, the result of a probe, a
\* request, a signal): destroyAll awaits only promises that are resolved
\* already, so from the teardown trigger to the return of the close hook the
\* loop runs microtasks alone and no other callback gets in between.
Turn == Up /\ dall.pc = "idle"

\* the children that have ended
Deaths == Cardinality({ h \in 1..Len(procs) : procs[h].pid # Undefined /\ ~Running(procs[h]) })

\* the budget of events of one behaviour is not used up
EventsLeft == Len(creates) + Len(execs) + Len(teardown) + Deaths < budget

\* ---------------------------------------------------------- createSession
\* lines 69-97: defaults, allocateDisplay, the identifier, spawn of Xvfb, up to
\* the await of waitForDisplay
CreateSession(opts) ==
    /\ Turn
    /\ EventsLeft
    /\ Len(creates) < MaxCreates
    /\ LET display == AllocateDisplay(nextDisplay, locks)
           id == SessionIdOf(nextId)
       IN  \E pid \in FreePids :
             /\ nextDisplay' = NextDisplayAfter(display)
             /\ nextId' = NextIdAfter(nextId)
             /\ procs' = Append(procs, NewProc("Xvfb", Some(pid), display, ProcessEnv))
             /\ creates' = Append(creates,
                   [ opts |-> opts, id |-> id, display |-> display,
                     width |-> Nullish(opts.width, DefaultWidth),
                     height |-> Nullish(opts.height, DefaultHeight),
                     colorDepth |-> Nullish(opts.colorDepth, DefaultColorDepth),
                     xvfbProcess |-> Len(procs) + 1,
                     pc |-> "waitForDisplay", error |-> Undefined ])
             /\ invoked' = invoked \cup
                   { XvfbInvocation(display, Nullish(opts.width, DefaultWidth),
                                    Nullish(opts.height, DefaultHeight),
                                    Nullish(opts.colorDepth, DefaultColorDepth)),
                     XdpyinfoInvocation(display) }
    /\ UNCHANGED << sessions, objs, locks, execs, destroyed, dall, host, teardown, budget,
                    call, pointer, capture >>

\* this.sessions.set(id, session); return session (lines 128-132)
Register(c, ps, os) ==
    /\ sessions' = RegistrySet(sessions, creates[c].id)
    /\ creates' = [ creates EXCEPT ![c].pc = "returned" ]
    /\ procs' = ps
    /\ objs' = os

\* lines 99-126: the Session object, and the spawn of openbox unless
\* opts.windowManager === false; on a host without openbox the spawn returns a
\* handle without pid and does not throw
AfterWaitForDisplay(c) ==
    LET cr == creates[c]
        session == [ id |-> cr.id, display |-> cr.display, width |-> cr.width,
                     height |-> cr.height, colorDepth |-> cr.colorDepth,
                     xvfbProcess |-> cr.xvfbProcess, wmProcess |-> Undefined,
                     appProcesses |-> <<>> ]
    IN  IF cr.opts.windowManager # Some(FALSE)
        THEN \E pid \in IF host.openbox THEN { Some(q) : q \in FreePids } ELSE { Undefined } :
               /\ procs' = Append(procs,
                     NewProc("openbox", pid, cr.display,
                             Overlay(ProcessEnv, "DISPLAY" :> DisplaySelector(cr.display))))
               /\ objs' = (cr.id :> [ session EXCEPT !.wmProcess = Some(Len(procs) + 1) ]) @@ objs
               /\ creates' = [ creates EXCEPT ![c].pc = "wmWait" ]
               /\ invoked' = invoked \cup { OpenboxInvocation }
               /\ UNCHANGED sessions
        ELSE /\ Register(c, procs, (cr.id :> session) @@ objs)
             /\ UNCHANGED invoked

\* waitForDisplay: a probe `xdpyinfo -display :N` exits 0 (lines 140-145)
WaitProbeOk(c) ==
    /\ Turn
    /\ c \in 1..Len(creates)
    /\ creates[c].pc = "waitForDisplay"
    /\ Running(procs[creates[c].xvfbProcess])
    /\ procs[creates[c].xvfbProcess].ready
    /\ AfterWaitForDisplay(c)
    /\ UNCHANGED << nextId, nextDisplay, locks, execs, destroyed, dall, host, teardown, budget,
                    call, pointer, capture >>

\* a waitForDisplay that takes the display for ready when the 5000 ms have
\* passed, lock file or not
WaitDeadlineNeverFails(c) ==
    /\ Turn
    /\ c \in 1..Len(creates)
    /\ creates[c].pc = "waitForDisplay"
    /\ creates' = [ creates EXCEPT ![c].pc = "lockGrace" ]
    /\ UNCHANGED << sessions, objs, nextId, nextDisplay, procs, locks, execs, destroyed,
                    dall, host, teardown, budget, invoked, call, pointer, capture >>

\* waitForDisplay: the 5000 ms have passed without a successful probe (lines
\* 150-159): ready after 300 ms more if the lock file exists, else the error
WaitDeadline(c) ==
    /\ Turn
    /\ c \in 1..Len(creates)
    /\ creates[c].pc = "waitForDisplay"
    /\ creates' = IF creates[c].display \in locks
                  THEN [ creates EXCEPT ![c].pc = "lockGrace" ]
                  ELSE [ creates EXCEPT ![c].pc = "failed",
                                        ![c].error = Some(InitError(creates[c].display)) ]
    /\ UNCHANGED << sessions, objs, nextId, nextDisplay, procs, locks, execs, destroyed,
                    dall, host, teardown, budget, invoked, call, pointer, capture >>

\* waitForDisplay returns after the 300 ms (lines 154-155)
WaitGraceDone(c) ==
    /\ Turn
    /\ c \in 1..Len(creates)
    /\ creates[c].pc = "lockGrace"
    /\ AfterWaitForDisplay(c)
    /\ UNCHANGED << nextId, nextDisplay, locks, execs, destroyed, dall, host, teardown, budget,
                    call, pointer, capture >>

\* the handle of the window manager a createSession call spawned
WmHandle(c) == objs[creates[c].id].wmProcess[1]

\* the 200 ms given to the window manager have passed (line 119)
WmTimer(c) ==
    /\ Turn
    /\ c \in 1..Len(creates)
    /\ creates[c].pc = "wmWait"
    /\ procs[WmHandle(c)].pid # Undefined
    /\ Register(c, procs, objs)
    /\ UNCHANGED << nextId, nextDisplay, locks, execs, destroyed, dall, host, teardown, budget,
                    invoked, call, pointer, capture >>

\* The spawn of openbox failed (ENOENT): the handle emits "error" on the next
\* tick.  The try/catch of lines 111-125 has been left by then and no "error"
\* listener was put on wmProcess, so the event is thrown as an uncaught
\* exception and ends the server process.
WmSpawnError(c) ==
    /\ Up
    /\ c \in 1..Len(creates)
    /\ creates[c].pc = "wmWait"
    /\ procs[WmHandle(c)].pid = Undefined
    /\ host' = [ host EXCEPT !.state = "crashed" ]
    /\ UNCHANGED << sessions, objs, nextId, nextDisplay, procs, locks, creates, execs,
                    destroyed, dall, teardown, budget, invoked, call, pointer, capture >>

\* --------------------------------------------------------- destroySession
\* a teardown that signals the framebuffer before the window manager and the
\* launched processes
DestroySignalOrderXvfbFirst(ps, s) ==
    (IF ps[s.xvfbProcess].pid # Undefined THEN << ps[s.xvfbProcess].pid[1] >> ELSE <<>>)
    \o (IF s.wmProcess # Undefined /\ ps[s.wmProcess[1]].pid # Undefined
        THEN << ps[s.wmProcess[1]].pid[1] >> ELSE <<>>)
    \o PidKeys(s.appProcesses)

\* lines 168-193: the pids handed to process.kill(pid, "SIGTERM"), in the
\* order of the calls: every key of appProcesses, then the window manager,
\* then Xvfb, the last two only if their pid is set
DestroySignalOrder(ps, s) ==
    PidKeys(s.appProcesses)
    \o (IF s.wmProcess # Undefined /\ ps[s.wmProcess[1]].pid # Undefined
        THEN << ps[s.wmProcess[1]].pid[1] >> ELSE <<>>)
    \o (IF ps[s.xvfbProcess].pid # Undefined THEN << ps[s.xvfbProcess].pid[1] >> ELSE <<>>)

\* the signals of destroySession: each process.kill is in its own try/catch,
\* so a failed one is followed by the next
SignalSession(ps, s) == KillEach(ps, DestroySignalOrder(ps, s))

\* the body of destroySession(id) for a registered id (lines 168-196)
DestroyEffect(id) ==
    /\ procs' = SignalSession(procs, objs[id])
    /\ sessions' = RegistryDelete(sessions, id)
    /\ destroyed' = destroyed \cup { id }

\* what destroySession(id) gives its caller: the error of lines 164-166 for an
\* id that is not registered
DestroySessionResult(keys, id) ==
    IF GetSession(keys, id).ok THEN Ok(Undefined) ELSE Err(NotFoundError(id))

\* a destroySession that signals the children of every session it has ever
\* known, registered or not
DestroySessionSignalsAgain(keys, ps, os, id) ==
    IF id \in DOMAIN os THEN SignalSession(ps, os[id]) ELSE ps

\* the child processes after destroySession(id): the throw of line 165 comes
\* before every process.kill
DestroySessionSignals(keys, ps, os, id) ==
    IF GetSession(keys, id).ok THEN SignalSession(ps, os[id]) ELSE ps

\* the registry after destroySession(id)
DestroySessionRegistry(keys, id) ==
    IF GetSession(keys, id).ok THEN RegistryDelete(keys, id) ELSE keys

\* destroySession(id): it holds no await, so it runs as one step
DestroySession(id) ==
    /\ Turn
    /\ procs' = DestroySessionSignals(sessions, procs, objs, id)
    /\ sessions' = DestroySessionRegistry(sessions, id)
    /\ destroyed' = IF DestroySessionResult(sessions, id).ok
                    THEN destroyed \cup { id } ELSE destroyed
    /\ UNCHANGED << objs, nextId, nextDisplay, locks, creates, execs, dall, host, teardown, budget, invoked, call, pointer, capture >>

\* ---------------------------------------------------------- execInSession
\* the env option of the spawn (lines 260-265)
ExecEnv(display, env) ==
    Overlay(Overlay(Overlay(ProcessEnv, "DISPLAY" :> DisplaySelector(display)),
                    "QT_QPA_PLATFORM" :> "xcb"),
            env)

\* const cmdStr = [command, ...args].join(" ")
CmdStr(command, args) == JoinWith(<<command>> \o args, " ")

\* lines 255-277: getSession, the spawn, up to the await of the error / 100 ms
\* race; a getSession failure is thrown at once
ExecInSession(id, inp) ==
    /\ Turn
    /\ IF ~GetSession(sessions, id).ok
       THEN UNCHANGED << procs, execs, invoked >>
       ELSE /\ EventsLeft
            /\ Len(execs) < MaxExecs
            /\ \E pid \in IF inp.command \in Installed
                          THEN { Some(q) : q \in FreePids } ELSE { Undefined } :
                 procs' = Append(procs,
                     NewProc("app", pid, objs[id].display, ExecEnv(objs[id].display, inp.env)))
            /\ execs' = Append(execs,
                   [ session |-> id, command |-> inp.command,
                     cmdStr |-> CmdStr(inp.command, inp.args),
                     child |-> Len(procs) + 1, pc |-> "spawnWait",
                     result |-> Ok(Undefined) ])
            /\ invoked' = invoked \cup { SpawnInvocation(inp.command, inp.args) }
    /\ UNCHANGED << sessions, objs, nextId, nextDisplay, locks, creates, destroyed, dall,
                    host, teardown, budget, call, pointer, capture >>

\* a record inserted although the spawn failed
AppsAfterSpawnErrorInserted(m, entry) == MapSet(m, entry)

\* the appProcesses map after the child reported a spawn error: the rejection
\* leaves line 280 unexecuted
AppsAfterSpawnError(m, entry) == m

\* the appProcesses map after the 100 ms passed without an error (line 280)
AppsAfterSpawnWait(m, entry) == MapSet(m, entry)

ExecEntry(e) ==
    [ pid |-> procs[execs[e].child].pid[1], command |-> execs[e].cmdStr,
      process |-> execs[e].child ]

\* the child's "error" event (lines 272-274); a failed spawn has no pid and
\* reports its error on the next tick, before the 100 ms timer
ExecSpawnError(e) ==
    /\ Turn
    /\ e \in 1..Len(execs)
    /\ execs[e].pc = "spawnWait"
    /\ procs[execs[e].child].pid = Undefined
    /\ execs' = [ execs EXCEPT ![e].pc = "failed",
                    ![e].result = Err(LaunchError(execs[e].cmdStr, SpawnCause(execs[e].command))) ]
    /\ objs' = [ objs EXCEPT ![execs[e].session].appProcesses =
                    AppsAfterSpawnError(@, [ pid |-> 0, command |-> execs[e].cmdStr,
                                             process |-> execs[e].child ]) ]
    /\ UNCHANGED << sessions, nextId, nextDisplay, procs, locks, creates, destroyed, dall,
                    host, teardown, budget, invoked, call, pointer, capture >>

\* the 100 ms timer (line 276), then lines 279-287
ExecSpawnWaitDone(e) ==
    /\ Turn
    /\ e \in 1..Len(execs)
    /\ execs[e].pc = "spawnWait"
    /\ procs[execs[e].child].pid # Undefined
    /\ objs' = [ objs EXCEPT ![execs[e].session].appProcesses =
                    AppsAfterSpawnWait(@, ExecEntry(e)) ]
    /\ execs' = [ execs EXCEPT ![e].pc = "returned",
                    ![e].result = Ok(procs[execs[e].child].pid) ]
    /\ UNCHANGED << sessions, nextId, nextDisplay, procs, locks, creates, destroyed, dall,
                    host, teardown, budget, invoked, call, pointer, capture >>

\* ------------------------------------------------- destroyAll and teardown
\* one iteration of the loop of destroyAll: destroySession(id) inside
\* try/catch (lines 581-585)
DestroyAllIteration(id) ==
    IF GetSession(sessions, id).ok
    THEN DestroyEffect(id)
    ELSE UNCHANGED << sessions, procs, destroyed >>

\* what is remembered of a teardown trigger: the sessions registered at that
\* moment, whether the destroyAll it started has returned, and how many
\* createSession calls had been made when it returned
TeardownRecord(t) ==
    [ trigger |-> t, registered |-> SeqToSet(sessions), returned |-> FALSE, callsBefore |-> 0 ]

DestroyAllReturned(rec) == [ rec EXCEPT !.returned = TRUE, !.callsBefore = Len(creates) ]

\* A teardown trigger that reaches the close hook: SIGINT and SIGTERM through
\* the handlers of main.ts, "close" through a call of server.close().  The hook
\* calls destroyAll, which snapshots the keys and runs its first iteration up
\* to the await (lines 579-582).
TeardownStart(t) ==
    /\ Turn
    /\ t \in HookTriggers
    /\ EventsLeft
    /\ Len(teardown) < MaxTriggers
    /\ IF sessions = <<>>
       THEN /\ dall' = [ pc |-> "done", todo |-> <<>> ]
            /\ teardown' = Append(teardown, DestroyAllReturned(TeardownRecord(t)))
            /\ UNCHANGED << sessions, procs, destroyed >>
       ELSE /\ dall' = [ pc |-> "awaiting", todo |-> Tail(sessions) ]
            /\ teardown' = Append(teardown, TeardownRecord(t))
            /\ DestroyAllIteration(Head(sessions))
    /\ UNCHANGED << objs, nextId, nextDisplay, locks, creates, execs, host, budget, invoked, call, pointer, capture >>

\* destroyAll resumes after the await: the next iteration, or the return
DestroyAllResume ==
    /\ Up
    /\ dall.pc = "awaiting"
    /\ IF dall.todo = <<>>
       THEN /\ dall' = [ pc |-> "done", todo |-> <<>> ]
            /\ teardown' = [ teardown EXCEPT ![Len(teardown)] = DestroyAllReturned(@) ]
            /\ UNCHANGED << sessions, procs, destroyed >>
       ELSE /\ dall' = [ pc |-> "awaiting", todo |-> Tail(dall.todo) ]
            /\ DestroyAllIteration(Head(dall.todo))
            /\ UNCHANGED teardown
    /\ UNCHANGED << objs, nextId, nextDisplay, locks, creates, execs, host, budget, invoked, call, pointer, capture >>

\* the close hook resumes after destroyAll: origClose() closes the transport;
\* a signal handler then calls process.exit(0)
CloseReturn ==
    /\ Up
    /\ dall.pc = "done"
    /\ dall' = [ pc |-> "idle", todo |-> <<>> ]
    /\ host' = IF teardown[Len(teardown)].trigger \in { "SIGINT", "SIGTERM" }
               THEN [ host EXCEPT !.state = "exited", !.transport = "closed" ]
               ELSE [ host EXCEPT !.transport = "closed" ]
    /\ UNCHANGED << sessions, objs, nextId, nextDisplay, procs, locks, creates, execs,
                    destroyed, teardown, budget, invoked, call, pointer, capture >>

\* the client closes the stdio transport: main.ts registers nothing for it
ClientDisconnect ==
    /\ Turn
    /\ host.transport = "open"
    /\ EventsLeft
    /\ Len(teardown) < MaxTriggers
    /\ teardown' = Append(teardown, TeardownRecord("disconnect"))
    /\ host' = [ host EXCEPT !.transport = "closed" ]
    /\ UNCHANGED << sessions, objs, nextId, nextDisplay, procs, locks, creates, execs,
                    destroyed, dall, budget, invoked, call, pointer, capture >>

\* a call is suspended at an await
InFlight ==
    \/ \E c \in 1..Len(creates) : creates[c].pc \in { "waitForDisplay", "lockGrace", "wmWait" }
    \/ \E e \in 1..Len(execs) : execs[e].pc = "spawnWait"
    \/ dall.pc # "idle"

\* the event loop is empty: the transport is closed, no call is suspended and
\* no child handle is alive; node then exits
EventLoopEmpty ==
    /\ Turn
    /\ host.transport = "closed"
    /\ ~InFlight
    /\ \A h \in 1..Len(procs) : ~Running(procs[h])
    /\ host' = [ host EXCEPT !.state = "exited" ]
    /\ UNCHANGED << sessions, objs, nextId, nextDisplay, procs, locks, creates, execs,
                    destroyed, dall, teardown, budget, invoked, call, pointer, capture >>

\* ------------------------------------------------------------ environment
\* Xvfb takes the display: it writes /tmp/.X<N>-lock and accepts clients
XvfbUp(h) ==
    /\ Up
    /\ h \in 1..Len(procs)
    /\ procs[h].kind = "Xvfb"
    /\ Running(procs[h])
    /\ ~procs[h].ready
    /\ procs[h].display \notin locks
    /\ procs' = [ procs EXCEPT ![h].ready = TRUE ]
    /\ locks' = locks \cup { procs[h].display }
    /\ UNCHANGED << sessions, objs, nextId, nextDisplay, creates, execs, destroyed, dall,
                    host, teardown, budget, invoked, call, pointer, capture >>

\* a child exits by itself (or in its SIGTERM handler): exitCode is set; Xvfb
\* removes its lock file
ProcExit(h) ==
    /\ Up
    /\ h \in 1..Len(procs)
    /\ Running(procs[h])
    /\ EventsLeft
    /\ procs' = [ procs EXCEPT ![h].exitCode = Some(0) ]
    /\ locks' = IF procs[h].kind = "Xvfb" /\ procs[h].ready
                THEN locks \ { procs[h].display } ELSE locks
    /\ UNCHANGED << sessions, objs, nextId, nextDisplay, creates, execs, destroyed, dall,
                    host, teardown, budget, invoked, call, pointer, capture >>

\* a child is ended by a signal (the SIGTERM of the manager's process.kill, or
\* any signal of the host): exitCode stays null, signalCode is set
ProcSignalled(h) ==
    /\ Up
    /\ h \in 1..Len(procs)
    /\ Running(procs[h])
    /\ EventsLeft
    /\ procs' = [ procs EXCEPT
                    ![h].signalCode = Some(IF procs[h].termSent THEN "SIGTERM" ELSE "SIGKILL") ]
    /\ UNCHANGED << sessions, objs, nextId, nextDisplay, locks, creates, execs, destroyed,
                    dall, host, teardown, budget, invoked, call, pointer, capture >>

\* ------------------------------------------------------------------- Next
Next ==
    \/ \E opts \in OptsInputs : CreateSession(opts)
    \/ \E c \in 1..MaxCreates : WaitProbeOk(c)
    \/ \E c \in 1..MaxCreates : WaitDeadline(c)
    \/ \E c \in 1..MaxCreates : WaitGraceDone(c)
    \/ \E c \in 1..MaxCreates : WmTimer(c)
    \/ \E c \in 1..MaxCreates : WmSpawnError(c)
    \/ \E id \in IdInputs : DestroySession(id)
    \/ \E id \in IdInputs, inp \in ExecInputs : ExecInSession(id, inp)
    \/ \E e \in 1..MaxExecs : ExecSpawnError(e)
    \/ \E e \in 1..MaxExecs : ExecSpawnWaitDone(e)
    \/ \E t \in HookTriggers : TeardownStart(t)
    \/ DestroyAllResume
    \/ CloseReturn
    \/ ClientDisconnect
    \/ EventLoopEmpty
    \/ \E h \in 1..(2 * (MaxEvents + 2)) : XvfbUp(h)
    \/ \E h \in 1..(2 * (MaxEvents + 2)) : ProcExit(h)
    \/ \E h \in 1..(2 * (MaxEvents + 2)) : ProcSignalled(h)

Spec == Init /\ [][Next]_vars

\* the same program with two more events in a behaviour
SpecLong == InitLong /\ [][Next]_vars

\* ------------------------------------------------------------- tool inputs
\* SessionOptions of the sessions the input and capture tools are used on:
\* the defaults, a display within both limits, displays over the pixel limit
\* alone (one of them by a few pixels), over the long-edge limit alone (by one
\* pixel, and with a height of one pixel) and over both
ToolOptsInputs ==
    { [width |-> Undefined, height |-> Undefined, colorDepth |-> Undefined,
       windowManager |-> Some(FALSE)] }
    \cup
    { [width |-> Some(d[1]), height |-> Some(d[2]), colorDepth |-> Undefined,
       windowManager |-> Some(FALSE)] :
         d \in { <<800, 600>>, <<1099, 1098>>, <<1569, 768>>, <<1568, 1568>>, <<2093, 1>>,
                 <<3840, 2160>>, <<4096, 4096>> } }

\* the dimensions of these sessions
ToolDims ==
    { << Nullish(o.width, DefaultWidth), Nullish(o.height, DefaultHeight) >> :
        o \in ToolOptsInputs }

\* getApiScaleFactor and getScaleFactor are pure: their values for the
\* dimensions above, computed once
ApiScaleFactors == [ d \in ToolDims |-> GetApiScaleFactor(d[1], d[2]) ]
ScaleFactors == [ d \in ToolDims |-> GetScaleFactor(d[1], d[2]) ]

\* the optional text of the type action: absent, empty, shell metacharacters
\* and quotes, a newline, a leading '-'
TextInputs ==
    { Undefined, Some("") }
    \cup { Some(t) : t \in { "$(reboot); `id` | cat > /etc/x && echo 'a' \"b\"",
                              "line1\nline2", "--version" } }

\* the optional coordinate of the computer tool, in API image space: absent,
\* the origin, the point of the documented example, the last point of a
\* 1098x1098 image, a point outside of every image and a negative one
CoordinateInputs ==
    { Undefined }
    \cup { Some(p) : p \in { <<0, 0>>, <<784, 441>>, <<1097, 1097>>, <<5000, 5000>>,
                              <<-3, 7>> } }

\* the optional session_id of a tool request
ToolIdInputs == { Undefined, Some("nope") }

\* -------------------------------------------------------- input and capture
\* the latest call has returned (the client sends its requests one by one)
CallDone == call.pc = "returned"

RECURSIVE DecimalDigits(_)
\* the decimal digits xdotool prints for n >= 0
DecimalDigits(n) == IF n < 10 THEN <<n>> ELSE Append(DecimalDigits(n \div 10), n % 10)

RECURSIVE ParseInt(_)
\* parseInt of a string of decimal digits
ParseInt(digits) ==
    IF digits = <<>> THEN 0
    ELSE 10 * ParseInt(SubSeq(digits, 1, Len(digits) - 1)) + digits[Len(digits)]

\* where the X server of a display has its pointer: at the centre of the
\* screen until a mousemove
PointerOf(s) ==
    IF s.display \in DOMAIN pointer THEN pointer[s.display]
    ELSE << s.width \div 2, s.height \div 2 >>

\* an argument list without the "--" that ends the options of xdotool type
SendTypeArgsNoSentinel(text) == << "type", "--clearmodifiers", "--delay", "12", text >>

\* sendType(session, text): the argument list of lines 339-346
SendTypeArgs(text) == << "type", "--clearmodifiers", "--delay", "12", "--", text >>

\* sendType(session, text)
SendType(text) == << XdotoolInvocation(SendTypeArgs(text)) >>

\* mouseMove(session, x, y)
MouseMove(x, y) ==
    << XdotoolInvocation(<< "mousemove", "--sync", ToString(x), ToString(y) >>) >>

\* mouseClick(session, button, x?, y?)
MouseClick(button, target) ==
    (IF target # Undefined THEN MouseMove(target[1][1], target[1][2]) ELSE <<>>)
        \o << XdotoolInvocation(<< "click", ToString(button) >>) >>

\* the output of `xdotool getmouselocation`: "x:<X> y:<Y> screen:0 window:<W>"
MouseLocationOutput(at) == [ x |-> DecimalDigits(at[1]), y |-> DecimalDigits(at[2]) ]

\* getCursorPosition(session): the x and y fields of the output, parsed
GetCursorPosition(output) == << ParseInt(output.x), ParseInt(output.y) >>

\* const tmpFile = `/tmp/mcp_screenshot_${session.id}_${Date.now()}.png`
TmpFile(s, now) == "/tmp/mcp_screenshot_" \o s.id \o "_" \o now \o ".png"

\* the command line of screenshot (lines 445-451)
ScreenshotCommand(s, now) ==
    "ffmpeg -f x11grab -video_size " \o ToString(s.width) \o "x" \o ToString(s.height)
        \o " -i " \o DisplaySelector(s.display) \o " -vframes 1 -y \""
        \o TmpFile(s, now) \o "\""

\* a screenshot that reports the dimensions of the display
ScreenshotSizeOfDisplay(s, scaleFactor) == << s.width, s.height >>

\* the width and height screenshot reports (lines 468-476, 488-492), from
\* the value of getApiScaleFactor(session.width, session.height)
ScreenshotSize(s, scaleFactor) ==
    << ImageEdge(s.width, scaleFactor), ImageEdge(s.height, scaleFactor) >>

\* a coordinate handed on as it came
ScaledCoordinateUnscaled(coordinate, s, scaleFactor) == coordinate

\* scaledCoordinate of the computer tool (lines 340-355), from the value of
\* getScaleFactor(session.width, session.height)
ScaledCoordinate(coordinate, s, scaleFactor) ==
    IF coordinate = Undefined THEN Undefined
    ELSE Some(<< ScaleCoordinate(coordinate[1][1], scaleFactor, s.width),
                 ScaleCoordinate(coordinate[1][2], scaleFactor, s.height) >>)

\* the position get_cursor_position returns (lines 368-375)
ApiPosition(pos, scaleFactor) ==
    [ x |-> ApiCoordinate(pos[1], scaleFactor), y |-> ApiCoordinate(pos[2], scaleFactor) ]

\* a request of the computer tool whose session cannot be resolved fails
\* before anything is invoked (line 333)
ToolRejected(op, sid) ==
    /\ call' = [ op |-> op, pc |-> "returned", session |-> Undefined,
                 invocations |-> <<>>, result |-> ResolveSession(sessions, sid) ]
    /\ UNCHANGED pointer

ToolFrame ==
    UNCHANGED << sessions, objs, nextId, nextDisplay, procs, locks, creates, execs,
                 destroyed, dall, host, teardown, budget, invoked, capture >>

\* computer(action = "type", text)
ComputerType(sid, text) ==
    /\ Turn /\ CallDone
    /\ LET r == ResolveSession(sessions, sid)
       IN  IF ~r.ok THEN ToolRejected("type", sid)
           ELSE /\ call' = IF ~Truthy(text)
                            THEN [ op |-> "type", pc |-> "returned",
                                   session |-> Some(r.value), text |-> text,
                                   invocations |-> <<>>,
                                   result |-> Err("text required for type action") ]
                            ELSE [ op |-> "type", pc |-> "returned",
                                   session |-> Some(r.value), text |-> text,
                                   invocations |-> SendType(text[1]),
                                   result |-> Ok([ ok |-> TRUE ]) ]
                /\ UNCHANGED pointer
    /\ ToolFrame

\* computer(action = "mouse_move", coordinate)
ComputerMouseMove(sid, coordinate) ==
    /\ Turn /\ CallDone
    /\ IF ~ResolveSession(sessions, sid).ok THEN ToolRejected("mouse_move", sid)
       ELSE \E s \in { objs[ResolveSession(sessions, sid).value] } :
            \E scaleFactor \in { ScaleFactors[<< s.width, s.height >>] } :
            \E target \in { ScaledCoordinate(coordinate, s, scaleFactor) } :
               IF target = Undefined
               THEN /\ call' = [ op |-> "mouse_move", pc |-> "returned",
                                 session |-> Some(s.id), coordinate |-> coordinate,
                                 target |-> target, invocations |-> <<>>,
                                 result |-> Err("coordinate required for mouse_move") ]
                    /\ UNCHANGED pointer
               ELSE /\ call' = [ op |-> "mouse_move", pc |-> "returned",
                                 session |-> Some(s.id), coordinate |-> coordinate,
                                 target |-> target,
                                 invocations |-> MouseMove(target[1][1], target[1][2]),
                                 result |-> Ok([ ok |-> TRUE ]) ]
                    /\ pointer' = (s.display :> target[1]) @@ pointer
    /\ ToolFrame

\* computer(action = "left_click", coordinate?)
ComputerLeftClick(sid, coordinate) ==
    /\ Turn /\ CallDone
    /\ IF ~ResolveSession(sessions, sid).ok THEN ToolRejected("left_click", sid)
       ELSE \E s \in { objs[ResolveSession(sessions, sid).value] } :
            \E scaleFactor \in { ScaleFactors[<< s.width, s.height >>] } :
            \E target \in { ScaledCoordinate(coordinate, s, scaleFactor) } :
               /\ call' = [ op |-> "left_click", pc |-> "returned",
                            session |-> Some(s.id), coordinate |-> coordinate,
                            target |-> target, invocations |-> MouseClick(1, target),
                            result |-> Ok([ ok |-> TRUE ]) ]
               /\ pointer' = IF target = Undefined THEN pointer
                             ELSE (s.display :> target[1]) @@ pointer
    /\ ToolFrame

\* computer(action = "get_cursor_position"): the position in API image space
ComputerGetCursorPosition(sid) ==
    /\ Turn /\ CallDone
    /\ IF ~ResolveSession(sessions, sid).ok THEN ToolRejected("get_cursor_position", sid)
       ELSE \E s \in { objs[ResolveSession(sessions, sid).value] } :
            \E scaleFactor \in { ScaleFactors[<< s.width, s.height >>] } :
            \E pos \in { GetCursorPosition(MouseLocationOutput(PointerOf(s))) } :
               /\ call' = [ op |-> "get_cursor_position", pc |-> "returned",
                            session |-> Some(s.id),
                            invocations |-> << XdotoolInvocation(<<"getmouselocation">>) >>,
                            result |-> Ok(ApiPosition(pos, scaleFactor)) ]
               /\ UNCHANGED pointer
    /\ ToolFrame

\* computer(action = "get_screenshot"); now is Date.now() at the call
ComputerGetScreenshot(sid, now) ==
    /\ Turn /\ CallDone
    /\ IF ~ResolveSession(sessions, sid).ok THEN ToolRejected("get_screenshot", sid)
       ELSE \E s \in { objs[ResolveSession(sessions, sid).value] } :
            \E scaleFactor \in { ApiScaleFactors[<< s.width, s.height >>] } :
            \E size \in { ScreenshotSize(s, scaleFactor) } :
               /\ call' = [ op |-> "get_screenshot", pc |-> "returned",
                            session |-> Some(s.id),
                            invocations |-> << ExecInvocation(ScreenshotCommand(s, now)) >>,
                            result |-> Ok([ display_width_px |-> size[1],
                                            display_height_px |-> size[2] ]) ]
               /\ UNCHANGED pointer
    /\ ToolFrame

\* ------------------------------------------------------- the xdotool helper
\* The text a child prints is kept as the sequence of its pieces: a piece is a
\* run of characters without white space, or one white-space character.
Whitespace == { " ", "\n", "\t" }

\* String.prototype.trim
Trim(text) ==
    LET RECURSIVE Lead(_)
        Lead(t) == IF t # <<>> /\ Head(t) \in Whitespace THEN Lead(Tail(t)) ELSE t
        RECURSIVE Trail(_)
        Trail(t) ==
            IF t # <<>> /\ t[Len(t)] \in Whitespace
            THEN Trail(SubSeq(t, 1, Len(t) - 1)) ELSE t
    IN  Trail(Lead(text))

\* the string of a text
TextString(text) ==
    LET RECURSIVE From(_)
        From(i) == IF i > Len(text) THEN "" ELSE text[i] \o From(i + 1)
    IN  From(1)

\* output.split("\n").filter(Boolean): the lines that are not empty
NonEmptyLines(text) ==
    LET RECURSIVE From(_, _)
        From(i, line) ==
            IF i > Len(text) THEN << line >>
            ELSE IF text[i] = "\n" THEN << line >> \o From(i + 1, "")
            ELSE From(i + 1, line \o text[i])
    IN  SelectSeq(From(1, ""), LAMBDA l : l # "")

\* a promise that takes the outcome of the latest resolve or reject
SettleLastWins(outcome, r) == Some(r)

\* a promise that is settled keeps its outcome: resolve and reject do nothing
Settle(outcome, r) == IF outcome = Undefined THEN Some(r) ELSE outcome

\* the handler of the 5000 ms timer (lines 313-316) rejects with this
XdotoolOnTimer == Err("xdotool timed out after 5s")

\* the "close" handler (lines 318-329); code is undefined for the null of a
\* child ended by a signal
XdotoolOnClose(code, stdout, stderr) ==
    IF code = Some(0) THEN Ok(Trim(stdout))
    ELSE Err("xdotool exited with code "
             \o (IF code = Undefined THEN "null" ELSE ToString(code[1]))
             \o ": " \o TextString(Trim(stderr)))

\* computer(action = "key", text): the handler up to the await of the promise of
\* xdotool (lines 296-316): the spawn, the listeners, the timer.  A spawn that
\* fails (the binary is missing, no process can be made) returns a handle
\* that reports "error" on the next tick.
ComputerKey(sid, text, started) ==
    /\ Turn /\ CallDone
    /\ LET r == ResolveSession(sessions, sid)
       IN  IF ~r.ok THEN ToolRejected("key", sid)
           ELSE /\ call' = IF ~Truthy(text)
                            THEN [ op |-> "key", pc |-> "returned",
                                   session |-> Some(r.value), invocations |-> <<>>,
                                   child |-> "none", termSent |-> FALSE, timer |-> "none",
                                   close |-> Undefined, outcome |-> Undefined,
                                   result |-> Err("text required for key action") ]
                            ELSE [ op |-> "key", pc |-> "xdotool",
                                   session |-> Some(r.value),
                                   invocations |->
                                      << XdotoolInvocation(<< "key", "--clearmodifiers",
                                                              text[1] >>) >>,
                                   child |-> IF started THEN "running" ELSE "failed",
                                   termSent |-> FALSE, timer |-> "armed",
                                   close |-> Undefined, outcome |-> Undefined,
                                   result |-> Undefined ]
                /\ UNCHANGED pointer
    /\ ToolFrame

\* what the handler returns once the promise of xdotool is settled
KeyReturn(c) ==
    [ c EXCEPT !.pc = "returned",
               !.result = IF c.outcome[1].ok THEN Ok([ ok |-> TRUE ]) ELSE c.outcome[1] ]

\* the timer fires (lines 313-316): child.kill("SIGTERM") and reject
XdotoolTimer ==
    /\ Turn
    /\ call.op = "key"
    /\ call.session # Undefined
    /\ call.timer = "armed"
    /\ call.child = "running"
    /\ call' = KeyReturn([ call EXCEPT !.timer = "fired", !.termSent = TRUE,
                                       !.outcome = Settle(@, XdotoolOnTimer) ])
    /\ UNCHANGED pointer
    /\ ToolFrame

\* the child closes (lines 318-329): clearTimeout, then resolve or reject
XdotoolClose(code, stdout, stderr) ==
    /\ Turn
    /\ call.op = "key"
    /\ call.session # Undefined
    /\ call.child = "running"
    /\ call' = KeyReturn([ call EXCEPT
                             !.child = "closed",
                             !.timer = IF @ = "armed" THEN "cleared" ELSE @,
                             !.close = Some([ code |-> code, stdout |-> stdout,
                                              stderr |-> stderr ]),
                             !.outcome = Settle(@, XdotoolOnClose(code, stdout, stderr)) ])
    /\ UNCHANGED pointer
    /\ ToolFrame

\* The handle of a failed spawn emits "error"; xdotool puts no "error"
\* listener on the child, so the event is thrown as an uncaught exception and
\* ends the server process.
XdotoolSpawnError ==
    /\ Up
    /\ call.op = "key"
    /\ call.session # Undefined
    /\ call.child = "failed"
    /\ host' = [ host EXCEPT !.state = "crashed" ]
    /\ UNCHANGED << sessions, objs, nextId, nextDisplay, procs, locks, creates, execs,
                    destroyed, dall, teardown, budget, invoked, call, pointer, capture >>

\* ------------------------------------------------- findWindows, waitForWindow
\* the identifiers of the windows of the examples
WindowIds == { "4194311", "73400321" }

\* what the promise of the xdotool search of one findWindows call comes to:
\* timed out, exit code 1 (nothing matches), exit code 0 with no output, with
\* one identifier, with two identifiers and an empty line
SearchInputs ==
    { XdotoolOnTimer,
      XdotoolOnClose(Some(1), <<>>, << "No", " ", "windows", "\n" >>),
      XdotoolOnClose(Some(0), <<>>, <<>>),
      XdotoolOnClose(Some(0), << "4194311", "\n" >>, <<>>),
      XdotoolOnClose(Some(0), << "4194311", "\n", "\n", "73400321", "\n" >>, <<>>) }

\* the output of getwindowgeometry --shell for a window at (10, 20), 400x200
GeometryOutput ==
    [ X |-> Some(<<1, 0>>), Y |-> Some(<<2, 0>>), WIDTH |-> Some(<<4, 0, 0>>),
      HEIGHT |-> Some(<<2, 0, 0>>) ]

\* what the promises of the two lookups of each window come to: both fine, or
\* the window is gone (exit code 1) at the geometry or at the name lookup of
\* the first, or of the second window
LookupInputs ==
    LET fine == [ geo |-> Ok(GeometryOutput), name |-> Ok(<< "Editor" >>) ]
        gone == XdotoolOnClose(Some(1), <<>>, << "BadWindow", "\n" >>)
    IN  { [ w \in WindowIds |-> fine ],
          [ w \in WindowIds |-> IF w = "4194311" THEN [ fine EXCEPT !.geo = gone ] ELSE fine ],
          [ w \in WindowIds |-> IF w = "4194311" THEN [ fine EXCEPT !.name = gone ] ELSE fine ],
          [ w \in WindowIds |-> IF w = "73400321" THEN [ fine EXCEPT !.geo = gone ] ELSE fine ] }

\* findWindows (lines 497-559), from what the promises of its xdotool calls
\* come to: [] when the search is rejected; else one WindowInfo for each
\* identifier whose two lookups are fulfilled, in the order of the search
FindWindows(search, lookup) ==
    IF ~search.ok THEN <<>>
    ELSE LET wids == SelectSeq(NonEmptyLines(search.value),
                               LAMBDA w : lookup[w].geo.ok /\ lookup[w].name.ok)
             Field(w, f) == IF lookup[w].geo.value[f] = Undefined THEN 0
                            ELSE ParseInt(lookup[w].geo.value[f][1])
         IN  [ i \in 1..Len(wids) |->
                 [ windowId |-> wids[i],
                   name |-> TextString(lookup[wids[i]].name.value),
                   x |-> Field(wids[i], "X"), y |-> Field(wids[i], "Y"),
                   width |-> Field(wids[i], "WIDTH"),
                   height |-> Field(wids[i], "HEIGHT") ] ]

\* the xdotool calls of one findWindows (lines 503-537): the search, then the
\* geometry and, if that is fulfilled, the name of every identifier
FindWindowsInvocations(titlePattern, search, lookup) ==
    LET wids == IF search.ok THEN NonEmptyLines(search.value) ELSE <<>>
        RECURSIVE From(_)
        From(i) ==
            IF i > Len(wids) THEN <<>>
            ELSE << XdotoolInvocation(<< "getwindowgeometry", "--shell", wids[i] >>) >>
                 \o (IF lookup[wids[i]].geo.ok
                     THEN << XdotoolInvocation(<< "getwindowname", wids[i] >>) >>
                     ELSE <<>>)
                 \o From(i + 1)
    IN  << XdotoolInvocation(IF Truthy(titlePattern)
                             THEN << "search", "--name", titlePattern[1] >>
                             ELSE << "search", "--onlyvisible", "--name", "" >>) >>
        \o From(1)

\* find_windows(title?): the handler (part_002 257-268).  started: the spawn of
\* the search made a child; a failed spawn ends the server process as under
\* XdotoolSpawnError, before the try/catch of findWindows sees anything.
FindWindowsTool(sid, title, started, search, lookup) ==
    /\ Turn /\ CallDone
    /\ LET r == ResolveSession(sessions, sid)
       IN  IF ~r.ok THEN ToolRejected("find_windows", sid) /\ UNCHANGED host
           ELSE /\ call' = [ op |-> "find_windows",
                             pc |-> IF started THEN "returned" ELSE "findWindows",
                             session |-> Some(r.value), title |-> title,
                             started |-> started, search |-> search, lookup |-> lookup,
                             invocations |->
                                IF started THEN FindWindowsInvocations(title, search, lookup)
                                ELSE FindWindowsInvocations(title, XdotoolOnTimer, lookup),
                             result |-> IF started THEN Ok(FindWindows(search, lookup))
                                        ELSE Undefined ]
                /\ host' = IF started THEN host ELSE [ host EXCEPT !.state = "crashed" ]
                /\ UNCHANGED pointer
    /\ UNCHANGED << sessions, objs, nextId, nextDisplay, procs, locks, creates, execs,
                    destroyed, dall, teardown, budget, invoked, capture >>

\* while (Date.now() - start < timeout): go on to the next poll, or return null
WaitLoopTest(c) ==
    IF c.elapsed < c.timeout THEN [ c EXCEPT !.pc = "findWindows" ]
    ELSE [ c EXCEPT !.pc = "returned", !.result = Ok(Undefined) ]

\* wait_for_window(title, timeout_ms): waitForWindow up to its first await
WaitForWindow(sid, title, timeout) ==
    /\ Turn /\ CallDone
    /\ LET r == ResolveSession(sessions, sid)
       IN  IF ~r.ok THEN ToolRejected("wait_for_window", sid)
           ELSE /\ call' = WaitLoopTest(
                       [ op |-> "wait_for_window", pc |-> "start", session |-> Some(r.value),
                         title |-> title, timeout |-> timeout, elapsed |-> 0, polls |-> 0,
                         results |-> <<>>, invocations |-> <<>>, result |-> Undefined ])
                /\ UNCHANGED pointer
    /\ ToolFrame

\* findWindows returns to the loop (lines 568-572): the first window if there
\* is one, else the sleep of 250 ms; a search that timed out has taken 5000 ms
WaitForWindowPoll(search, lookup) ==
    /\ Turn
    /\ call.op = "wait_for_window"
    /\ call.pc = "findWindows"
    /\ \E windows \in { FindWindows(search, lookup) } :
         LET polled == [ call EXCEPT
                           !.polls = @ + 1,
                           !.results = Append(@, windows),
                           !.elapsed = IF search = XdotoolOnTimer THEN @ + 5000 ELSE @,
                           !.invocations =
                              @ \o FindWindowsInvocations(Some(call.title), search, lookup) ]
         IN  call' = IF windows # <<>>
                     THEN [ polled EXCEPT !.pc = "returned", !.result = Ok(Some(windows[1])) ]
                     ELSE [ polled EXCEPT !.pc = "sleep" ]
    /\ UNCHANGED pointer
    /\ ToolFrame

\* the spawn of the search of a poll fails: the server process ends as under
\* XdotoolSpawnError, with the call unanswered
WaitForWindowSpawnError ==
    /\ Up
    /\ call.op = "wait_for_window"
    /\ call.pc = "findWindows"
    /\ host' = [ host EXCEPT !.state = "crashed" ]
    /\ UNCHANGED << sessions, objs, nextId, nextDisplay, procs, locks, creates, execs,
                    destroyed, dall, teardown, budget, invoked, call, pointer, capture >>

\* the 250 ms timer of line 572 fires, and the loop tests the time again
WaitForWindowWake ==
    /\ Turn
    /\ call.op = "wait_for_window"
    /\ call.pc = "sleep"
    /\ call' = WaitLoopTest([ call EXCEPT !.elapsed = @ + 250 ])
    /\ UNCHANGED pointer
    /\ ToolFrame

\* ------------------------------------------------------------------- scroll
\* A string whose characters matter is kept as the sequence of its characters.
\* A number is <<n>>; NaN is the empty sequence.
NaN == <<>>

\* text.split(sep)
Split(text, sep) ==
    LET RECURSIVE From(_, _)
        From(i, part) ==
            IF i > Len(text) THEN << part >>
            ELSE IF text[i] = sep THEN << part >> \o From(i + 1, <<>>)
            ELSE From(i + 1, Append(part, text[i]))
    IN  From(1, <<>>)

\* String.prototype.toLowerCase
ToLowerCase(text) ==
    LET upper == << "A", "B", "C", "D", "E", "F", "G", "H", "I", "J", "K", "L", "M",
                    "N", "O", "P", "Q", "R", "S", "T", "U", "V", "W", "X", "Y", "Z" >>
        lower == << "a", "b", "c", "d", "e", "f", "g", "h", "i", "j", "k", "l", "m",
                    "n", "o", "p", "q", "r", "s", "t", "u", "v", "w", "x", "y", "z" >>
    IN  [ i \in 1..Len(text) |->
            IF \E k \in 1..26 : upper[k] = text[i]
            THEN lower[CHOOSE k \in 1..26 : upper[k] = text[i]]
            ELSE text[i] ]

\* parseInt(text, 10): white space, a sign, then the decimal digits up to the
\* first other character; NaN without a digit
ParseInt10(text) ==
    LET digits == << "0", "1", "2", "3", "4", "5", "6", "7", "8", "9" >>
        IsDigit(ch) == \E d \in 1..10 : digits[d] = ch
        ValueOf(ch) == (CHOOSE d \in 1..10 : digits[d] = ch) - 1
        RECURSIVE Skip(_)
        Skip(i) == IF i <= Len(text) /\ text[i] \in Whitespace THEN Skip(i + 1) ELSE i
        start == Skip(1)
        signed == start <= Len(text) /\ text[start] \in { "+", "-" }
        first == IF signed THEN start + 1 ELSE start
        RECURSIVE Digits(_, _)
        Digits(i, n) ==
            IF i <= Len(text) /\ IsDigit(text[i]) THEN Digits(i + 1, 10 * n + ValueOf(text[i]))
            ELSE n
    IN  IF first > Len(text) \/ ~IsDigit(text[first]) THEN NaN
        ELSE IF signed /\ text[start] = "-" THEN << -Digits(first, 0) >>
        ELSE << Digits(first, 0) >>

\* String(Math.max(1, Math.round(amount / 30))): Math.round(NaN) and
\* Math.max(1, NaN) are NaN; a quotient <= 0 rounds to at most 0
ScrollClicks(amount) ==
    IF amount = NaN THEN "NaN"
    ELSE IF amount[1] <= 0 THEN "1"
    ELSE ToString(Max(1, DblRoundHalfUp(DblDiv(DblOfInt(amount[1]), DblOfInt(30)))))

\* String(buttonMap[key]) for the object literal of lines 402-407, undefined
\* for a key without property: a property lookup on an object literal also
\* finds the properties of Object.prototype, of which "constructor" and
\* "__proto__" are written in lower case
ButtonMap(key) ==
    CASE key = "up" -> Some("4")
      [] key = "down" -> Some("5")
      [] key = "left" -> Some("6")
      [] key = "right" -> Some("7")
      [] key = "constructor" -> Some("function Object() { [native code] }")
      [] key = "__proto__" -> Some("[object Object]")
      [] OTHER -> Undefined

\* mouseScroll(session, direction, amount, x?, y?) (lines 391-425): the xdotool
\* calls it makes and, these being fulfilled, what it comes to
MouseScroll(direction, amount, target) ==
    LET moved == IF target # Undefined THEN MouseMove(target[1][1], target[1][2]) ELSE <<>>
        button == ButtonMap(TextString(ToLowerCase(direction)))
    IN  IF button = Undefined
        THEN [ invocations |-> moved,
               result |-> Err("Invalid scroll direction: " \o TextString(direction)
                              \o ". Use up/down/left/right.") ]
        ELSE [ invocations |->
                  moved \o << XdotoolInvocation(<< "click", "--repeat", ScrollClicks(amount),
                                                  "--delay", "10", button[1] >>) >>,
               result |-> Ok(Undefined) ]

\* computer(action = "scroll", coordinate, text) (part_002 433-451)
ComputerScroll(sid, coordinate, text) ==
    /\ Turn /\ CallDone
    /\ IF ~ResolveSession(sessions, sid).ok THEN ToolRejected("scroll", sid)
       ELSE \E s \in { objs[ResolveSession(sessions, sid).value] } :
            \E scaleFactor \in { ScaleFactors[<< s.width, s.height >>] } :
            \E target \in { ScaledCoordinate(coordinate, s, scaleFactor) } :
               IF target = Undefined \/ text = Undefined \/ text = Some(<<>>)
               THEN /\ call' = [ op |-> "scroll", pc |-> "returned", session |-> Some(s.id),
                                 coordinate |-> coordinate, target |-> target, text |-> text,
                                 direction |-> Undefined, suffix |-> Undefined,
                                 amount |-> NaN, invocations |-> <<>>,
                                 result |-> IF target = Undefined
                                            THEN Err("coordinate required for scroll")
                                            ELSE Err("text required for scroll (e.g. \"down\", \"up:500\")") ]
                    /\ UNCHANGED pointer
               ELSE \E parts \in { Split(text[1], ":") } :
                    \E amount \in { IF Len(parts) >= 2 /\ parts[2] # <<>>
                                    THEN ParseInt10(parts[2]) ELSE << 300 >> } :
                    \E done \in { MouseScroll(parts[1], amount, target) } :
                       /\ call' = [ op |-> "scroll", pc |-> "returned", session |-> Some(s.id),
                                    coordinate |-> coordinate, target |-> target, text |-> text,
                                    direction |-> Some(parts[1]),
                                    suffix |-> IF Len(parts) >= 2 THEN Some(parts[2])
                                               ELSE Undefined,
                                    amount |-> amount, invocations |-> done.invocations,
                                    result |-> IF done.result.ok THEN Ok([ ok |-> TRUE ])
                                               ELSE done.result ]
                       /\ pointer' = (s.display :> target[1]) @@ pointer
    /\ ToolFrame

\* the optional text of the scroll action: absent, empty, a direction alone,
\* with an amount, in capitals, with a tie (15 / 30 = 0.5), a negative amount,
\* an empty and a non-numeric suffix, an amount with a unit, an unknown
\* direction, and the name of a property of Object.prototype
ScrollTextInputs ==
    { Undefined, Some(<<>>) }
    \cup { Some(t) : t \in
             { << "d", "o", "w", "n" >>,
               << "u", "p", ":", "5", "0", "0" >>,
               << "L", "e", "f", "t", ":", "1", "5" >>,
               << "R", "I", "G", "H", "T", ":", "-", "9", "0" >>,
               << "d", "o", "w", "n", ":" >>,
               << "d", "o", "w", "n", ":", "a", "b", "c" >>,
               << "u", "p", ":", "4", "4", "p", "x" >>,
               << "s", "i", "d", "e", "w", "a", "y", "s", ":", "9", "0" >>,
               << "c", "o", "n", "s", "t", "r", "u", "c", "t", "o", "r" >> } }

\* ------------------------------------------------------------- SpecTools
\* one session on a host without other X servers, and the input and capture
\* tools used on it
InitTools == InitWith(1) /\ locks = {} /\ host.openbox

NextTools ==
    \/ \E opts \in ToolOptsInputs : CreateSession(opts)
    \/ \E c \in 1..MaxCreates : WaitProbeOk(c)
    \/ \E h \in 1..(2 * (MaxEvents + 2)) : XvfbUp(h)
    \/ \E sid \in ToolIdInputs, text \in TextInputs : ComputerType(sid, text)
    \/ \E sid \in ToolIdInputs, coordinate \in CoordinateInputs : ComputerMouseMove(sid, coordinate)
    \/ \E sid \in ToolIdInputs, coordinate \in CoordinateInputs : ComputerLeftClick(sid, coordinate)
    \/ \E sid \in ToolIdInputs : ComputerGetCursorPosition(sid)
    \/ \E sid \in ToolIdInputs, now \in { "1762214400000" } : ComputerGetScreenshot(sid, now)
    \/ \E sid \in ToolIdInputs, coordinate \in { Undefined, Some(<<784, 441>>) },
          text \in ScrollTextInputs :
          ComputerScroll(sid, coordinate, text)

SpecTools == InitTools /\ [][NextTools]_vars

\* ------------------------------------------------------------- SpecWindows
\* one session, and the tools that run xdotool for a key press and for the
\* window queries
NextWindows ==
    \/ \E opts \in { [ width |-> Undefined, height |-> Undefined, colorDepth |-> Undefined,
                       windowManager |-> Some(FALSE) ] } : CreateSession(opts)
    \/ \E c \in 1..MaxCreates : WaitProbeOk(c)
    \/ \E h \in 1..(2 * (MaxEvents + 2)) : XvfbUp(h)
    \/ \E sid \in ToolIdInputs, text \in { Undefined, Some("ctrl+s") }, started \in BOOLEAN :
          ComputerKey(sid, text, started)
    \/ XdotoolTimer
    \/ \E code \in { Undefined, Some(0), Some(1) },
          stdout \in { << "\n", "ok", " ", "1", "\n" >> },
          stderr \in { << " ", "Error:", " ", "bad", "\n" >> } :
          XdotoolClose(code, stdout, stderr)
    \/ XdotoolSpawnError
    \/ \E sid \in ToolIdInputs, title \in { Undefined, Some("Editor") }, started \in BOOLEAN,
          search \in SearchInputs, lookup \in LookupInputs :
          FindWindowsTool(sid, title, started, search, lookup)
    \/ \E sid \in ToolIdInputs, title \in { "Editor" }, timeout \in { 0, 250, 500 } :
          WaitForWindow(sid, title, timeout)
    \/ \E search \in SearchInputs, lookup \in LookupInputs : WaitForWindowPoll(search, lookup)
    \/ WaitForWindowSpawnError
    \/ WaitForWindowWake

SpecWindows == InitTools /\ [][NextWindows]_vars

\* the event loop runs a callback that is due: the result of a poll and the
\* timer of a sleep come in the end
SpecWindowsFair ==
    /\ SpecWindows
    /\ WF_vars(\E search \in SearchInputs, lookup \in LookupInputs :
                  WaitForWindowPoll(search, lookup))
    /\ WF_vars(WaitForWindowWake)

\* ------------------------------------------------- screenshots in flight
\* screenshot(session) up to the await of execAsync (lines 445-451); ms is
\* the last digit of Date.now(), which never goes back.  A request whose
\* session cannot be resolved fails before screenshot is called.
Screenshot(sid, ms) ==
    /\ Turn
    /\ Len(capture.calls) < MaxShots
    /\ ResolveSession(sessions, sid).ok
    /\ \A k \in 1..Len(capture.calls) : capture.calls[k].ms <= ms
    /\ \E s \in { objs[ResolveSession(sessions, sid).value] } :
       \E now \in { "176221440000" \o ToString(ms) } :
          /\ capture' = [ capture EXCEPT !.calls =
                            Append(@, [ session |-> s.id, ms |-> ms,
                                        tmpFile |-> TmpFile(s, now), pc |-> "ffmpeg",
                                        ffmpeg |-> "running", result |-> Undefined ]) ]
          /\ invoked' = invoked \cup { ExecInvocation(ScreenshotCommand(s, now)) }
    /\ UNCHANGED << sessions, objs, nextId, nextDisplay, procs, locks, creates, execs,
                    destroyed, dall, host, teardown, budget, call, pointer >>

\* the ffmpeg of call k ends: having written its frame to the file (-y
\* overwrites a file that is there), or with an error and nothing written
FfmpegExit(k, ok) ==
    /\ Up
    /\ k \in 1..Len(capture.calls)
    /\ capture.calls[k].ffmpeg = "running"
    /\ capture' = [ calls |-> [ capture.calls EXCEPT ![k].ffmpeg = IF ok THEN "done" ELSE "failed" ],
                    files |-> IF ok THEN (capture.calls[k].tmpFile :> k) @@ capture.files
                              ELSE capture.files ]
    /\ UNCHANGED << sessions, objs, nextId, nextDisplay, procs, locks, creates, execs,
                    destroyed, dall, host, teardown, budget, invoked, call, pointer >>

\* call k resumes after execAsync (lines 452-492): the error of the catch, or
\* existsSync, readFileSync, unlinkSync and the image returned
ScreenshotResume(k) ==
    /\ Turn
    /\ k \in 1..Len(capture.calls)
    /\ capture.calls[k].pc = "ffmpeg"
    /\ capture.calls[k].ffmpeg # "running"
    /\ \E c \in { capture.calls[k] } : \E s \in { objs[c.session] } :
          capture' =
             IF c.ffmpeg = "failed"
             THEN [ capture EXCEPT !.calls[k].pc = "returned",
                                   !.calls[k].result = Err("Screenshot failed") ]
             ELSE IF c.tmpFile \notin DOMAIN capture.files
             THEN [ capture EXCEPT !.calls[k].pc = "returned",
                                   !.calls[k].result = Err("Screenshot file not created") ]
             ELSE [ calls |-> [ capture.calls EXCEPT
                                  ![k].pc = "returned",
                                  ![k].result =
                                     Ok([ frame |-> capture.files[c.tmpFile],
                                          size |-> ScreenshotSize(s,
                                                      ApiScaleFactors[<< s.width, s.height >>]) ]) ],
                    files |-> [ f \in DOMAIN capture.files \ { c.tmpFile } |->
                                  capture.files[f] ] ]
    /\ UNCHANGED << sessions, objs, nextId, nextDisplay, procs, locks, creates, execs,
                    destroyed, dall, host, teardown, budget, invoked, call, pointer >>

\* ------------------------------------------------------------- SpecCapture
\* up to two sessions, and screenshot calls that overlap
NextCapture ==
    \/ \E opts \in ToolOptsInputs : opts.width \in { Undefined, Some(800) } /\ CreateSession(opts)
    \/ \E c \in 1..MaxCreates : WaitProbeOk(c)
    \/ \E h \in 1..(2 * (MaxEvents + 2)) : XvfbUp(h)
    \/ \E sid \in OptIdInputs, ms \in 0..1 : Screenshot(sid, ms)
    \/ \E k \in 1..MaxShots, ok \in BOOLEAN : FfmpegExit(k, ok)
    \/ \E k \in 1..MaxShots : ScreenshotResume(k)

SpecCapture == Init /\ [][NextCapture]_vars

\* ================================================================ claims

\* ----------------------------------------------------------------------- C1
\* C1: in every reachable state the display numbers of the registered sessions
\* are pairwise distinct, and no two createSession calls were given the same
\* session identifier.
C1_DistinctDisplaysAndIds ==
    /\ \A i, j \in 1..Len(sessions) :
          i # j => objs[sessions[i]].display # objs[sessions[j]].display
    /\ \A a, b \in 1..Len(creates) : a # b => creates[a].id # creates[b].id

\* two sessions are registered, both past the display another X server of the
\* host holds a lock file for
C1_Witness ==
    /\ Len(sessions) = 2
    /\ FirstDisplay \in locks
    /\ \A i \in 1..2 : objs[sessions[i]].display > FirstDisplay

\* ----------------------------------------------------------------------- C2
\* C2: once destroySession(id) has returned, id is in no later listSessions
\* result, getSession(id) and resolveSession(id) fail with "Session 'id' not
\* found" (the error execInSession(id) and destroySession(id) throw as well),
\* and no later execInSession call on id gets as far as its spawn.
C2_DestroyedStaysGone ==
    /\ [](\A id \in destroyed :
            /\ \A i \in 1..Len(sessions) : ListSessions(sessions, objs, procs)[i].id # id
            /\ GetSession(sessions, id) = Err(NotFoundError(id))
            /\ ResolveSession(sessions, Some(id)) = Err(NotFoundError(id)))
    /\ [][\A id \in destroyed :
            /\ Len(execs') > Len(execs) => execs'[Len(execs')].session # id
            /\ destroyed' # destroyed => id \in destroyed']_vars

\* destroySession has returned for one session while another one is still
\* registered and listed
C2_Witness ==
    \E id \in destroyed :
        /\ Len(ListSessions(sessions, objs, procs)) = 1
        /\ sessions[1] # id
        /\ \E c \in 1..Len(creates) : creates[c].id = id /\ creates[c].pc = "returned"

\* ----------------------------------------------------------------------- C3
\* C3: whenever createSession has failed, the Xvfb process that call spawned
\* has been sent a termination signal (or has ended already).
C3_FailedCreateSignalsXvfb ==
    \A c \in 1..Len(creates) :
        creates[c].pc = "failed" =>
            \/ procs[creates[c].xvfbProcess].termSent
            \/ ~Running(procs[creates[c].xvfbProcess])

\* ----------------------------------------------------------------------- C4
\* C4: once a destroyAll has returned, listSessions holds no session of a
\* createSession call made before that return, whether the call had finished
\* or was still in flight when destroyAll ran.
C4_ListEmptyAfterDestroyAll ==
    \A t \in 1..Len(teardown) :
        teardown[t].returned =>
            \A c \in 1..teardown[t].callsBefore :
                \A i \in 1..Len(sessions) :
                    ListSessions(sessions, objs, procs)[i].id # creates[c].id

\* ----------------------------------------------------------------------- C5
\* C5: resolveSession(id) with an identifier supplied is the registered session
\* id, or the "not found" error; with none supplied it is the sole session, the
\* "no sessions" error when none is registered, or the "multiple sessions"
\* error listing every registered identifier.
C5_ResolveSession ==
    \A id \in OptIdInputs :
        ResolveSession(sessions, id) =
            IF id # Undefined
            THEN IF \E i \in 1..Len(sessions) : sessions[i] = id[1]
                 THEN Ok(id[1])
                 ELSE Err(NotFoundError(id[1]))
            ELSE IF Len(sessions) = 1 THEN Ok(sessions[1])
            ELSE IF Len(sessions) = 0 THEN Err(NoSessionsError)
            ELSE Err(MultipleError(sessions))

\* ----------------------------------------------------------------------- C6
\* the createSession calls that have returned and whose session no
\* destroySession has returned for
C6_Live == { c \in 1..Len(creates) : creates[c].pc = "returned" /\ creates[c].id \notin destroyed }

\* the execInSession calls on session id that returned a pid
C6_Launched(id) == { e \in 1..Len(execs) : execs[e].session = id /\ execs[e].pc = "returned" }

\* C6: listSessions returns exactly the sessions created and not destroyed,
\* each with the identifier, display, width and height of its createSession
\* call and with one process entry for each execInSession call on it that
\* returned a pid.
C6_ListSessionsExact ==
    LET list == ListSessions(sessions, objs, procs)
    IN  /\ Len(list) = Cardinality(C6_Live)
        /\ \A c \in C6_Live :
             \E i \in 1..Len(list) :
                /\ list[i].id = creates[c].id
                /\ list[i].display = creates[c].display
                /\ list[i].width = Nullish(creates[c].opts.width, DefaultWidth)
                /\ list[i].height = Nullish(creates[c].opts.height, DefaultHeight)
                /\ Len(list[i].processes) = Cardinality(C6_Launched(creates[c].id))
                /\ \A e \in C6_Launched(creates[c].id) :
                      \E k \in 1..Len(list[i].processes) :
                         /\ Some(list[i].processes[k].pid) = execs[e].result.value
                         /\ list[i].processes[k].command = execs[e].cmdStr

\* ----------------------------------------------------------------------- C7
\* C7: when the child of an execInSession call reports a spawn error, the call
\* fails with "Failed to launch '<command string>': <cause>" and no
\* appProcesses map changes, so listSessions shows what it showed before.
C7_SpawnErrorLeavesMapUnchanged ==
    [][\A e \in 1..Len(execs) :
          (execs[e].pc = "spawnWait" /\ execs'[e].pc = "failed") =>
             /\ execs'[e].result =
                   Err("Failed to launch '" \o execs[e].cmdStr \o "': "
                          \o SpawnCause(execs[e].command))
             /\ \A id \in DOMAIN objs : objs'[id].appProcesses = objs[id].appProcesses
             /\ ListSessions(sessions', objs', procs') = ListSessions(sessions, objs, procs)]_vars

\* an execInSession call failed with the launch error of the missing binary
C7_Witness ==
    \E e \in 1..Len(execs) :
        /\ execs[e].pc = "failed"
        /\ execs[e].result =
              Err("Failed to launch '/bin/does-not-exist -v': spawn /bin/does-not-exist ENOENT")
        /\ execs[e].session \in SeqToSet(sessions)

\* ----------------------------------------------------------------------- C8
\* C8: every entry of the appProcesses map of every registered session is a
\* process spawned with DISPLAY equal to the display selector of that session.
C8_LaunchedOnOwnDisplay ==
    \A i \in 1..Len(sessions) :
        \A k \in 1..Len(objs[sessions[i]].appProcesses) :
            procs[objs[sessions[i]].appProcesses[k].process].env["DISPLAY"]
                = DisplaySelector(objs[sessions[i]].display)

\* ----------------------------------------------------------------------- C9
\* C9: the alive flag listSessions reports for a launched process is true
\* exactly when the process has not ended.
C9_AliveIffRunning ==
    \A i \in 1..Len(sessions) :
        \A k \in 1..Len(objs[sessions[i]].appProcesses) :
            ProcessInfos(objs[sessions[i]].appProcesses, procs)[k].alive
                <=> Running(procs[objs[sessions[i]].appProcesses[k].process])

\* ---------------------------------------------------------------------- C10
\* C10: when the server process has exited, the destroyAll of every teardown
\* trigger seen (SIGINT, SIGTERM, client disconnect, server close) has
\* returned and every session registered at the trigger has been destroyed.
C10_TeardownBeforeExit ==
    host.state = "exited" =>
        \A t \in 1..Len(teardown) :
            /\ teardown[t].returned
            /\ teardown[t].registered \subseteq destroyed

\* ---------------------------------------------------------------------- C11
\* C11: whenever the type action has handed a text T to sendType, the one
\* invocation made is a spawn of xdotool (no shell) whose argument list is
\* exactly <<"type", "--clearmodifiers", "--delay", "12", "--", T>>: T is the
\* single last element, unchanged, after the "--" sentinel.
C11_SendTypeArgv ==
    (call.op = "type" /\ call.result.ok) =>
        call.invocations =
            << [ via |-> "spawn", file |-> "xdotool",
                 args |-> << "type", "--clearmodifiers", "--delay", "12", "--",
                             call.text[1] >> ] >>

\* a text that starts with '-' was typed
C11_Witness ==
    /\ call.op = "type"
    /\ call.result.ok
    /\ call.text = Some("--version")

\* ---------------------------------------------------------------------- C12
\* C12: every external-tool invocation the session manager has made (Xvfb,
\* the xdpyinfo probe, openbox, launched applications, xdotool, the ffmpeg
\* capture) handed its arguments over as separate argv elements: none went
\* through a shell command string.
C12_NoShellCommandStrings ==
    \A i \in invoked \cup SeqToSet(call.invocations) : i.via = "spawn"

\* ---------------------------------------------------------------------- C13
\* C13: the image dimensions (w', h') a screenshot reports are within the
\* limits of the API: w' <= 1568, h' <= 1568 and w' * h' <= 1.15 * 2^20.
C13_ScreenshotWithinLimits ==
    (call.op = "get_screenshot" /\ call.result.ok) =>
        /\ call.result.value.display_width_px <= 1568
        /\ call.result.value.display_height_px <= 1568
        /\ 100 * call.result.value.display_width_px * call.result.value.display_height_px
              <= 115 * 2 ^ 20

\* a screenshot of a session over the limits was taken and scaled down
C13_Witness ==
    /\ call.op = "get_screenshot"
    /\ call.result.ok
    /\ objs[call.session[1]].width * objs[call.session[1]].height > 2 ^ 21
    /\ call.result.value.display_width_px < objs[call.session[1]].width
    /\ call.result.value.display_height_px < objs[call.session[1]].height

\* ---------------------------------------------------------------------- C14
\* C14, as stated: for a session created with the default dimensions
\* 1920x1080, get_screenshot reports display_width_px = 1568 and
\* display_height_px = 882.
C14_DefaultScreenshotIs1568x882 ==
    (/\ call.op = "get_screenshot"
     /\ call.result.ok
     /\ creates[1].opts.width = Undefined
     /\ creates[1].opts.height = Undefined) =>
        call.result.value = [ display_width_px |-> 1568, display_height_px |-> 882 ]

\* C14, amended: for a session created with the default dimensions 1920x1080,
\* get_screenshot reports display_width_px = 1464 and display_height_px = 823
\* (the pixel limit decides the scale factor, not the long-edge limit).
C14_DefaultScreenshotIs1464x823 ==
    (/\ call.op = "get_screenshot"
     /\ call.result.ok
     /\ creates[1].opts.width = Undefined
     /\ creates[1].opts.height = Undefined) =>
        /\ objs[call.session[1]].width = 1920
        /\ objs[call.session[1]].height = 1080
        /\ call.result.value = [ display_width_px |-> 1464, display_height_px |-> 823 ]

\* a screenshot of a session created with the defaults was taken
C14_Witness ==
    /\ call.op = "get_screenshot"
    /\ call.result.ok
    /\ creates[1].opts.width = Undefined
    /\ creates[1].opts.height = Undefined
    /\ objs[call.session[1]].width = DefaultWidth
    /\ objs[call.session[1]].height = DefaultHeight

C16_InImage(coordinate, s) ==
    \E size \in { ScreenshotSize(s, ApiScaleFactors[<< s.width, s.height >>]) } :
        /\ coordinate[1] \in 0..(size[1] - 1)
        /\ coordinate[2] \in 0..(size[2] - 1)

\* C16: when a mouse_move to an API-image coordinate (x, y) inside the image
\* is followed directly by get_cursor_position on the same session, the
\* position returned differs from (x, y) by at most 1 on each axis.
C16_MoveThenPositionWithinOne ==
    [][(/\ call.op = "mouse_move"
        /\ call.result.ok
        /\ C16_InImage(call.coordinate[1], objs[call.session[1]])
        /\ call'.op = "get_cursor_position"
        /\ call'.result.ok
        /\ call'.session = call.session) =>
           /\ call'.result.value.x - call.coordinate[1][1] \in -1..1
           /\ call'.result.value.y - call.coordinate[1][2] \in -1..1]_vars

\* get_cursor_position was served on a session whose screenshots are scaled
\* down, after the pointer had been moved away from the origin
C16_Witness ==
    /\ call.op = "get_cursor_position"
    /\ call.result.ok
    /\ objs[call.session[1]].display \in DOMAIN pointer
    /\ call.result.value.x > 0
    /\ call.result.value.x < pointer[objs[call.session[1]].display][1]

\* ---------------------------------------------------------------------- C17
\* C17: a waitForWindow call with timeout 0 that has returned has polled
\* findWindows at least once (and so has run the xdotool search).
C17_TimeoutZeroPollsOnce ==
    (/\ call.op = "wait_for_window"
     /\ call.session # Undefined
     /\ call.timeout = 0
     /\ call.pc = "returned") =>
        /\ call.polls >= 1
        /\ call.invocations # <<>>

\* ---------------------------------------------------------------------- C18
\* C18: when createSession has spawned the window manager on a host without
\* the openbox binary, the server process keeps running (and the call goes on
\* to register its session).
C18_OpenboxAbsentNotFatal ==
    \A c \in 1..Len(creates) :
        (creates[c].pc = "wmWait" /\ procs[WmHandle(c)].pid = Undefined) =>
            host.state = "running"

\* ---------------------------------------------------------------------- C19
\* the child handles a session holds
C19_Handles(s) ==
    { s.xvfbProcess }
        \cup (IF s.wmProcess = Undefined THEN {} ELSE { s.wmProcess[1] })
        \cup { s.appProcesses[k].process : k \in 1..Len(s.appProcesses) }

\* C19: a step that takes session a out of the registry (destroySession(a))
\* leaves every other registered session b registered, with the same Session
\* object (display, dimensions, launched-process map), and sends no
\* termination signal to b's Xvfb, window manager or launched processes.
C19_DestroyLeavesOthersAlone ==
    [][\A a \in SeqToSet(sessions) :
          a \notin SeqToSet(sessions') =>
             \A b \in SeqToSet(sessions) \ { a } :
                /\ b \in SeqToSet(sessions')
                /\ objs'[b] = objs[b]
                /\ \A h \in C19_Handles(objs[b]) :
                      procs'[h].termSent = procs[h].termSent]_vars

\* ---------------------------------------------------------------------- C20
\* C20: after destroySession(id) has returned, a further destroySession(id)
\* fails with "Session 'id' not found", leaves the registry and the child
\* processes as they are (no signal is sent), and a step of that call changes
\* neither the registry nor the counters nextId and nextDisplay nor any process.
C20_SecondDestroyChangesNothing ==
    /\ [](\A id \in destroyed :
            /\ DestroySessionResult(sessions, id) = Err(NotFoundError(id))
            /\ DestroySessionRegistry(sessions, id) = sessions
            /\ DestroySessionSignals(sessions, procs, objs, id) = procs)
    /\ [][\A id \in destroyed :
            DestroySession(id) => UNCHANGED << sessions, nextId, nextDisplay, procs >>]_vars

\* a session was destroyed and its Xvfb, signalled once, still runs, so that a
\* second round of signals would reach it; another session is registered
C20_Witness ==
    \E id \in destroyed :
        /\ Running(procs[objs[id].xvfbProcess])
        /\ procs[objs[id].xvfbProcess].termSent
        /\ sessions # <<>>

\* ---------------------------------------------------------------------- C21
\* C21: a step that takes a session out of the registry (destroySession, or an
\* iteration of destroyAll) has handed to process.kill, in this order, the
\* pid key of every launched-process record, then the pid of the window
\* manager if it has one, then the pid of Xvfb; every process that ran under
\* one of these pids has been sent the signal, also when an earlier pid of
\* the list had no process left (its kill failed); the registry loses the
\* session in that same step, after the signals.
C21_SignalsInOrderThenRemoval ==
    [][\A id \in SeqToSet(sessions) :
          id \notin SeqToSet(sessions') =>
             LET s == objs[id]
                 order == DestroySignalOrder(procs, s)
                 n == Len(s.appProcesses)
                 wm == IF s.wmProcess = Undefined THEN Undefined
                       ELSE procs[s.wmProcess[1]].pid
                 m == IF wm = Undefined THEN n ELSE n + 1
             IN  /\ Len(order) = m + 1
                 /\ \A k \in 1..n : order[k] = s.appProcesses[k].pid
                 /\ wm # Undefined => order[n + 1] = wm[1]
                 /\ order[m + 1] = procs[s.xvfbProcess].pid[1]
                 /\ \A k \in 1..Len(order) : \A h \in 1..Len(procs) :
                       Running(procs[h]) /\ procs[h].pid = Some(order[k])
                          => procs'[h].termSent
                 /\ procs' = KillEach(procs, order)]_vars

\* a destroyed session whose launched process had ended before the teardown
\* (the first process.kill failed with ESRCH, nothing holds the pid) while its
\* Xvfb, later in the order, ran and was signalled
C21_Witness ==
    \E id \in destroyed :
        /\ objs[id].appProcesses # <<>>
        /\ ~Running(procs[objs[id].appProcesses[1].process])
        /\ ~procs[objs[id].appProcesses[1].process].termSent
        /\ \A h \in 1..Len(procs) :
              procs[h].pid = Some(objs[id].appProcesses[1].pid) => ~procs[h].termSent
        /\ procs[objs[id].xvfbProcess].termSent
        /\ procs[objs[id].xvfbProcess].signalCode = Some("SIGTERM")

\* ---------------------------------------------------------------------- C22
\* the identifiers listSessions shows
C22_Listed == { ListSessions(sessions, objs, procs)[i].id : i \in 1..Len(sessions) }

\* C22: every session in the registry comes from a createSession call whose
\* waitForDisplay has returned normally, for an Xvfb that had taken its
\* display; a createSession call that has returned left its session in the
\* registry (from where only destroySession takes it); while a call is still
\* in its readiness wait, or has failed in it, none of listSessions,
\* getSession and resolveSession shows its session.
C22_RegisteredOnlyWhenReady ==
    /\ \A id \in SeqToSet(sessions) :
          \E c \in 1..Len(creates) :
             /\ creates[c].id = id
             /\ creates[c].pc = "returned"
             /\ procs[creates[c].xvfbProcess].ready
    /\ \A c \in 1..Len(creates) :
          /\ creates[c].pc = "returned" =>
                creates[c].id \in SeqToSet(sessions) \cup destroyed
          /\ creates[c].pc \in { "waitForDisplay", "lockGrace", "wmWait", "failed" } =>
                /\ creates[c].id \notin C22_Listed
                /\ ~GetSession(sessions, creates[c].id).ok
                /\ ~ResolveSession(sessions, Some(creates[c].id)).ok
                /\ ResolveSession(sessions, Undefined) # Ok(creates[c].id)

\* one createSession call has returned and its session is the one session
\* resolveSession() finds, while another call is still in waitForDisplay
C22_Witness ==
    \E c, d \in 1..Len(creates) :
        /\ creates[c].pc = "returned"
        /\ ResolveSession(sessions, Undefined) = Ok(creates[c].id)
        /\ creates[d].pc = "waitForDisplay"
        /\ ~procs[creates[d].xvfbProcess].ready

\* ---------------------------------------------------------------------- C23
\* C23: the allocator starts at candidate 99; a createSession step is given
\* the smallest display number N >= the candidate with no lock file
\* /tmp/.X<N>-lock at that moment and leaves the candidate at N + 1; the
\* numbers given to successive calls are strictly increasing, whatever has
\* been destroyed and whichever lock files are gone since.
C23_AllocatorSmallestUnlockedIncreasing ==
    /\ [](/\ creates = <<>> => nextDisplay = FirstDisplay
          /\ FirstDisplay = 99
          /\ \A a, b \in 1..Len(creates) :
                a < b => creates[a].display < creates[b].display)
    /\ [][Len(creates') = Len(creates) + 1 =>
             LET N == creates'[Len(creates')].display
             IN  /\ N >= nextDisplay
                 /\ N \notin locks
                 /\ \A n \in nextDisplay..(N - 1) : n \in locks
                 /\ nextDisplay' = N + 1]_vars

\* display 99 is locked by another X server; the first session had display
\* 100, was destroyed and its Xvfb has removed its lock file, so that 100 is
\* free again; the second createSession call was given 101
C23_Witness ==
    /\ Len(creates) = 2
    /\ FirstDisplay \in locks
    /\ creates[1].id \in destroyed
    /\ creates[1].display = FirstDisplay + 1
    /\ creates[1].display \notin locks
    /\ procs[creates[1].xvfbProcess].exitCode # Undefined
    /\ creates[2].display = FirstDisplay + 2

\* ---------------------------------------------------------------------- C24
\* C24: a waitForWindow call polls findWindows only while the timeout has not
\* elapsed and goes on only after an empty result; once returned it has given
\* the first element of its last poll, the first that was not empty, or null
\* after nothing but empty polls; and every call returns in the end.
C24_WaitForWindowReturns ==
    /\ [](call.op = "wait_for_window" /\ call.session # Undefined =>
            LET n == Len(call.results)
            IN  /\ call.polls = n
                /\ \A i \in 1..(n - 1) : call.results[i] = <<>>
                /\ call.pc = "findWindows" => call.elapsed < call.timeout
                /\ call.pc # "returned" => \A i \in 1..n : call.results[i] = <<>>
                /\ call.pc = "returned" =>
                      IF n >= 1 /\ call.results[n] # <<>>
                      THEN call.result = Ok(Some(call.results[n][1]))
                      ELSE call.result = Ok(Undefined) /\ call.elapsed >= call.timeout)
    /\ (call.op = "wait_for_window" /\ call.pc # "returned") ~> (call.pc = "returned")

\* ---------------------------------------------------------------------- C25
\* C25: every find_windows call on a session returns a list: the empty list
\* when the search could not be started or its promise was rejected (exit
\* code not 0, timeout); else the windows of exactly those identifiers the
\* search printed whose geometry and name lookups were both fulfilled, in the
\* order of the search.
C25_FindWindowsNeverRaises ==
    (call.op = "find_windows" /\ call.session # Undefined) =>
        /\ call.pc = "returned"
        /\ Up
        /\ call.result.ok
        /\ (~call.started \/ ~call.search.ok) => call.result.value = <<>>
        /\ (call.started /\ call.search.ok) =>
              [ i \in 1..Len(call.result.value) |-> call.result.value[i].windowId ]
                 = SelectSeq(NonEmptyLines(call.search.value),
                             LAMBDA w : call.lookup[w].geo.ok /\ call.lookup[w].name.ok)

\* ---------------------------------------------------------------------- C26
\* C26: a scroll whose direction is, in any mix of cases, up, down, left or
\* right succeeds with exactly one click invocation, "click --repeat c --delay
\* 10 b" with b = 4, 5, 6, 7 and, for a numeric amount, c = max(1,
\* round(amount / 30)); one with any other direction fails with the
\* invalid-direction error and has no click invocation.
C26_ScrollButtonsAndClicks ==
    (call.op = "scroll" /\ call.session # Undefined /\ call.direction # Undefined) =>
        LET key == TextString(ToLowerCase(call.direction[1]))
            clicks == SelectSeq(call.invocations, LAMBDA i : i.args[1] = "click")
            b == CASE key = "up" -> "4" [] key = "down" -> "5" [] key = "left" -> "6"
                   [] OTHER -> "7"
        IN  IF key \in { "up", "down", "left", "right" }
            THEN /\ call.result.ok
                 /\ Len(clicks) = 1
                 /\ Len(clicks[1].args) = 6
                 /\ << clicks[1].args[1], clicks[1].args[2], clicks[1].args[4],
                       clicks[1].args[5], clicks[1].args[6] >>
                       = << "click", "--repeat", "--delay", "10", b >>
                 /\ call.amount # NaN =>
                       clicks[1].args[3]
                          = ToString(Max(1, (2 * call.amount[1] + 30) \div 60))
            ELSE /\ call.result
                       = Err("Invalid scroll direction: " \o TextString(call.direction[1])
                             \o ". Use up/down/left/right.")
                 /\ clicks = <<>>

\* ---------------------------------------------------------------------- C27
\* C27: in a scroll with text "dir" or "dir:suffix" the amount is 300 whenever
\* there is no suffix or the suffix does not parse as a number, and a click
\* then repeats 10 times; the repeat count of every click of a scroll is the
\* decimal form of an integer >= 1.
C27_ScrollAmountDefaultsTo300 ==
    (call.op = "scroll" /\ call.session # Undefined /\ call.direction # Undefined) =>
        LET clicks == SelectSeq(call.invocations, LAMBDA i : i.args[1] = "click")
        IN  /\ (call.suffix = Undefined \/ ParseInt10(call.suffix[1]) = NaN) =>
                  /\ call.amount = << 300 >>
                  /\ \A k \in 1..Len(clicks) : clicks[k].args[3] = "10"
            /\ \A k \in 1..Len(clicks) :
                  clicks[k].args[3] \in { ToString(n) : n \in 1..1000 }

\* ---------------------------------------------------------------------- C28
\* C28: for an xdotool invocation (the key action): when the timer has fired
\* the child was sent SIGTERM and the promise is rejected with "xdotool timed
\* out after 5s"; when the child closed first the promise is fulfilled with
\* the trimmed standard output for code 0 and rejected with the code and the
\* trimmed standard error otherwise; before either event nothing is decided;
\* and a close that comes after the outcome was decided leaves it as it is.
C28_XdotoolOutcomeDecidedOnce ==
    /\ [](call.op = "key" /\ call.session # Undefined /\ call.timer # "none"
             /\ call.child # "failed" =>
            /\ call.timer = "armed" =>
                  call.outcome = Undefined /\ call.pc = "xdotool" /\ ~call.termSent
            /\ call.timer = "fired" =>
                  /\ call.termSent
                  /\ call.outcome = Some(Err("xdotool timed out after 5s"))
                  /\ call.pc = "returned"
                  /\ call.result = Err("xdotool timed out after 5s")
            /\ call.timer = "cleared" =>
                  /\ ~call.termSent
                  /\ call.pc = "returned"
                  /\ call.close[1].code = Some(0) =>
                        /\ call.outcome = Some(Ok(<< "ok", " ", "1" >>))
                        /\ call.result = Ok([ ok |-> TRUE ])
                  /\ call.close[1].code = Some(1) =>
                        call.result = Err("xdotool exited with code 1: Error: bad")
                  /\ call.close[1].code = Undefined =>
                        call.result = Err("xdotool exited with code null: Error: bad"))
    /\ [][(/\ call.op = "key" /\ call.session # Undefined
           /\ call.outcome # Undefined
           /\ call.child = "running"
           /\ call'.op = "key" /\ call'.session # Undefined
           /\ call'.child = "closed") =>
             call'.outcome = call.outcome /\ call'.result = call.result]_vars

\* the timer fired first and the child, signalled, closed afterwards with
\* exit code 0: the close handler called resolve on the rejected promise
C28_Witness ==
    /\ call.op = "key"
    /\ call.session # Undefined
    /\ call.timer = "fired"
    /\ call.child = "closed"
    /\ call.close = Some([ code |-> Some(0), stdout |-> << "\n", "ok", " ", "1", "\n" >>,
                           stderr |-> << " ", "Error:", " ", "bad", "\n" >> ])

\* ---------------------------------------------------------------------- C29
\* C29: while a session stays in the registry every record of its
\* launched-process map stays in the map with its pid key and its command
\* string: no step (a process exiting, a later execInSession on the session,
\* whatever pid its child is given) removes or replaces a record.
C29_LaunchedRecordsKept ==
    [][\A id \in SeqToSet(sessions) \cap SeqToSet(sessions') :
          \A k \in 1..Len(objs[id].appProcesses) :
             \E j \in 1..Len(objs'[id].appProcesses) :
                /\ objs'[id].appProcesses[j].pid = objs[id].appProcesses[k].pid
                /\ objs'[id].appProcesses[j].command = objs[id].appProcesses[k].command]_vars

\* ---------------------------------------------------------------------- C30
\* C30: two screenshot calls that are in flight at the same time have
\* different temporary files; a call whose ffmpeg wrote its frame returns an
\* image, and the image a call returns is the frame of its own ffmpeg.
C30_ScreenshotFilesDistinct ==
    /\ \A j, k \in 1..Len(capture.calls) :
          (j # k /\ capture.calls[j].pc = "ffmpeg" /\ capture.calls[k].pc = "ffmpeg") =>
             capture.calls[j].tmpFile # capture.calls[k].tmpFile
    /\ \A k \in 1..Len(capture.calls) :
          capture.calls[k].pc = "returned" =>
             /\ capture.calls[k].ffmpeg = "done" => capture.calls[k].result.ok
             /\ capture.calls[k].result.ok => capture.calls[k].result.value.frame = k

\* ---------------------------------------------------------------------- C31
\* C31: a process spawned by execInSession for a session that has been
\* destroyed is not left running without a termination signal, and no record
\* is inserted into the launched-process map of a session that is not in the
\* registry.
C31_OverlappingLaunchSignalled ==
    /\ [](\A e \in 1..Len(execs) :
            (execs[e].session \in destroyed /\ Running(procs[execs[e].child])) =>
                procs[execs[e].child].termSent)
    /\ [][\A id \in DOMAIN objs :
            objs'[id].appProcesses # objs[id].appProcesses => id \in SeqToSet(sessions)]_vars

\* ---------------------------------------------------------------------- C32
\* C32: when the host process has exited after a teardown, the Xvfb and
\* openbox children of every createSession call that was still in flight
\* (readiness wait or window-manager wait pending) have been sent a
\* termination signal if they still run.
C32_InFlightCreateSignalledAtExit ==
    host.state = "exited" =>
       \A c \in 1..Len(creates) :
          creates[c].pc \in { "waitForDisplay", "lockGrace", "wmWait" } =>
             /\ Running(procs[creates[c].xvfbProcess]) =>
                   procs[creates[c].xvfbProcess].termSent
             /\ (creates[c].pc = "wmWait" /\ Running(procs[WmHandle(c)])) =>
                   procs[WmHandle(c)].termSent

\* ---------------------------------------------------------------------- C33
\* the child handles a session owns: its Xvfb, its window manager and every
\* child an execInSession call spawned for it
C33_Owned(id) ==
    { objs[id].xvfbProcess }
    \cup (IF objs[id].wmProcess # Undefined THEN { objs[id].wmProcess[1] } ELSE {})
    \cup { execs[e].child : e \in { k \in 1..Len(execs) : execs[k].session = id } }

\* C33: when a session is destroyed, every pid handed to process.kill is the
\* pid of a child the session owns that is still running.
C33_SignalsOnlyRunningOwned ==
    [][\A id \in destroyed' \ destroyed :
          \A i \in 1..Len(DestroySignalOrder(procs, objs[id])) :
             \E h \in C33_Owned(id) :
                /\ Running(procs[h])
                /\ procs[h].pid = Some(DestroySignalOrder(procs, objs[id])[i])]_vars

\* ---------------------------------------------------------------------- C34
\* C34: a scroll request that fails with the invalid-direction error has
\* issued no xdotool command, in particular no mousemove to the coordinate
\* supplied.
C34_InvalidDirectionHasNoEffect ==
    (/\ call.op = "scroll" /\ call.session # Undefined /\ call.direction # Undefined
     /\ call.result = Err("Invalid scroll direction: " \o TextString(call.direction[1])
                          \o ". Use up/down/left/right.")) =>
        call.invocations = <<>>

====
